---- MODULE Spec2Model ----
(***************************************************************************)
(* ZADOS neurochemical core: the state containers, the kinetics library,   *)
(* the Euler-Maruyama integrator, the registry, the engine and the         *)
(* readout, translated from the Python sources under                       *)
(* src/DEVELOPER NOTEBOOK/src/abstracted/zados/.                           *)
(*                                                                         *)
(* Numbers.  A Python float x is the integer round(x * SCALE): fixed point *)
(* with four decimals.  Products and quotients round to the nearest unit.  *)
(* The clocks (engine.current_time and the t of integrate_sde) are kept as *)
(* exact doubles, with float addition rounding as Python's does.           *)
(* Strings.  A key string is the sequence of its "_"-separated segments    *)
(* ("DA_D3" is <<"DA","D3">>), so that split("_") is an operation on the   *)
(* value.  A Python dict is the sequence of its <<key, value>> pairs in    *)
(* insertion order; None is <<>> and a present optional value x is <<x>>.  *)
(***************************************************************************)
EXTENDS Integers, Sequences, FiniteSets, TLC

VARIABLES
    neurotransmitters,  \* registry._neurotransmitters: dict name -> NeurotransmitterState
    receptors,          \* registry._receptors: dict receptor_id -> ReceptorState
    configs,            \* registry._configs: dict name -> config dict
    oscillations,       \* registry._oscillations: None or an OscillationState
    current_time,       \* engine.current_time, a double
    dt,                 \* engine.dt
    nsteps,             \* number of step calls made so far (completed or failed)
    ncalls,             \* number of calls made on the engine and the objects it holds
    result,             \* outcome of the last engine call
    args,               \* arguments of a call of a pure function
    ret,                \* what that call returned
    receptor,           \* a ReceptorState object driven through its own methods
    sinceChange,        \* sum of the dt increments since chi last changed
    bridge,             \* a RewardSafetyBridge object: _hooks, _last_verified_state
    verdict,            \* the last call made on the bridge and its outcome
    scheduler,          \* an EventScheduler object: _events, and the number of events added
    triggered           \* the last call made on the scheduler and the actions it ran

engineVars == <<neurotransmitters, receptors, configs, oscillations,
                current_time, dt, nsteps, ncalls, result>>
pureVars == <<args, ret>>
receptorVars == <<receptor, sinceChange>>
bridgeVars == <<bridge, verdict>>
schedulerVars == <<scheduler, triggered>>
vars == <<neurotransmitters, receptors, configs, oscillations, current_time,
          dt, nsteps, ncalls, result, args, ret, receptor, sinceChange, bridge,
          verdict, scheduler, triggered>>

(***************************************************************************)
(* Fixed-point arithmetic                                                  *)
(***************************************************************************)
SCALE == 100 * 100

Max(a, b) == IF a >= b THEN a ELSE b
Min(a, b) == IF a <= b THEN a ELSE b
Abs(a) == IF a < 0 THEN -a ELSE a

\* n / d rounded to the nearest integer, d # 0
RDiv(n, d) == IF d > 0 THEN (2 * n + d) \div (2 * d)
                        ELSE (2 * (-n) + (-d)) \div (2 * (-d))
\* float product and quotient
Mul(a, b) == RDiv(a * b, SCALE)
Div(a, b) == RDiv(a * SCALE, b)

RECURSIVE SqrtIter(_, _, _)
SqrtIter(n, lo, hi) ==
    IF lo >= hi THEN lo
    ELSE LET mid == (lo + hi + 1) \div 2
         IN IF mid * mid <= n THEN SqrtIter(n, mid, hi)
                              ELSE SqrtIter(n, lo, mid - 1)
\* math.sqrt(x) for x >= 0
Sqrt(x) == SqrtIter(x * SCALE, 0, 46340)

\* math.exp(-x) for x >= 0: halving down to x <= 0.5, then the series to x^4
RECURSIVE ExpNeg(_)
ExpNeg(x) ==
    IF x > SCALE \div 2
    THEN LET h == ExpNeg(RDiv(x, 2)) IN Mul(h, h)
    ELSE LET x2 == Mul(x, x)
             x3 == Mul(x2, x)
             x4 == Mul(x3, x)
         IN SCALE - x + RDiv(x2, 2) - RDiv(x3, 6) + RDiv(x4, 24)

(***************************************************************************)
(* Python floats where their rounding matters (the clocks).  A non-negative *)
(* double is held exactly as the integer m = high * 2^30 + low, its multiple *)
(* of a quantum 2^q that divides every double of the run.  A double has a   *)
(* significand of 53 binary digits: m is one when m < 2^53, that is when    *)
(* high < 2^23, or when m is a multiple of 2^k and m < 2^(53+k).  A float   *)
(* sum is the exact sum rounded to the nearest double, ties to the one with *)
(* an even significand.                                                     *)
(***************************************************************************)
LimbBase == 2^30
DoubleZero == [high |-> 0, low |-> 0]

\* a + b, exact
ExactSum(a, b) ==
    [high |-> a.high + b.high + (a.low + b.low) \div LimbBase,
     low |-> (a.low + b.low) % LimbBase]

\* n * a, exact
RECURSIVE ExactTimes(_, _)
ExactTimes(n, a) == IF n = 0 THEN DoubleZero ELSE ExactSum(a, ExactTimes(n - 1, a))

\* round to nearest, ties to even, at 53 digits
RoundDouble(x) ==
    IF x.high < 2^23 THEN x
    ELSE LET k == CHOOSE j \in 1..7 : 2^(22 + j) <= x.high /\ x.high < 2^(23 + j)
             unit == 2^k
             rest == x.low % unit
             kept == x.low \div unit
             up == 2 * rest > unit \/ (2 * rest = unit /\ kept % 2 = 1)
             low == (IF up THEN kept + 1 ELSE kept) * unit
         IN [high |-> x.high + low \div LimbBase, low |-> low % LimbBase]

\* the float a + b and the float n * a
DoubleAdd(a, b) == RoundDouble(ExactSum(a, b))
DoubleTimes(n, a) == RoundDouble(ExactTimes(n, a))

DoubleLessEq(a, b) == a.high < b.high \/ (a.high = b.high /\ a.low <= b.low)

\* a small whole number of quanta
Quanta(n) == [high |-> 0, low |-> n]

\* the doubles 0.01 (0x147ae147ae147b quanta of 2^-59) and 0.1
\* (0xccccccccccccd quanta of 2^-55)
Double_0_01 == [high |-> 5368709, low |-> 128849019]
Double_0_1 == [high |-> 3355443, low |-> 214748365]

\* the double of a time step dt given at the model's resolution; a power of two
\* is one quantum of its own
DoubleOf(dt_) ==
    CASE dt_ = 100 -> Double_0_01
      [] dt_ = 1000 -> Double_0_1
      [] dt_ \in {2500, 5000, SCALE} -> Quanta(1)

(***************************************************************************)
(* Python dict, in insertion order                                         *)
(***************************************************************************)
DictHas(d, k) == \E i \in 1..Len(d) : d[i][1] = k
DictGet(d, k) == d[CHOOSE i \in 1..Len(d) : d[i][1] = k][2]
DictGetDefault(d, k, default) == IF DictHas(d, k) THEN DictGet(d, k) ELSE default
DictPut(d, k, v) ==
    IF DictHas(d, k)
    THEN [i \in 1..Len(d) |-> IF d[i][1] = k THEN <<k, v>> ELSE d[i]]
    ELSE Append(d, <<k, v>>)
DictKeys(d) == [i \in 1..Len(d) |-> d[i][1]]

None == <<>>
Some(x) == <<x>>

(***************************************************************************)
(* state/neurotransmitter_state.py, state/receptor_state.py,               *)
(* state/oscillation_state.py                                              *)
(***************************************************************************)
\* NeurotransmitterState(...) followed by __post_init__
NeurotransmitterState(C_tonic, C_phasic, F, eta_u) ==
    [C_tonic  |-> Max(0, C_tonic),
     C_phasic |-> Max(0, C_phasic),
     F        |-> Max(0, Min(SCALE, F)),
     eta_u    |-> Max(0, Min(SCALE, eta_u))]

NT_C_tonic_default == 5000
DefaultNeurotransmitterState == NeurotransmitterState(NT_C_tonic_default, 0, 0, SCALE)

\* NeurotransmitterState.C
TotalC(state) == state.C_tonic + state.C_phasic

\* ReceptorState(...) followed by __post_init__
ReceptorState(receptor_id, rho, sigma, lambda_loc, gamma_gprotein, chi, exposure_trace, time_in_state) ==
    [receptor_id    |-> receptor_id,
     rho            |-> Max(0, Min(SCALE, rho)),
     sigma          |-> Max(0, Min(SCALE, sigma)),
     lambda_loc     |-> Max(0, Min(SCALE, lambda_loc)),
     gamma_gprotein |-> Max(0, Min(SCALE, gamma_gprotein)),
     chi            |-> chi,
     exposure_trace |-> Max(0, exposure_trace),
     time_in_state  |-> Max(0, time_in_state)]

R_lambda_loc_default == 5000
DefaultReceptorState(receptor_id) ==
    ReceptorState(receptor_id, SCALE, SCALE, R_lambda_loc_default, SCALE, "active", 0, 0)

ReceptorFunctionalState == {"active", "desensitized", "internalized", "upregulated"}

\* ReceptorState.saturation: concentration / (concentration + K_d);
\* the caller sees ZeroDivisionError when concentration + K_d = 0
SaturationRaises(concentration, K_d) == concentration + K_d = 0
Saturation(concentration, K_d) == Div(concentration, concentration + K_d)

\* OscillationState(...) followed by __post_init__ (phases left at their defaults)
OscillationState(delta, theta, alpha, beta, gamma) ==
    [delta |-> Max(0, Min(SCALE, delta)),
     theta |-> Max(0, Min(SCALE, theta)),
     alpha |-> Max(0, Min(SCALE, alpha)),
     beta  |-> Max(0, Min(SCALE, beta)),
     gamma |-> Max(0, Min(SCALE, gamma))]

OscillationBands == {"delta", "theta", "alpha", "beta", "gamma"}

\* OscillationState.set_band(band, amplitude): the amplitude is clamped to [0,1];
\* a band of another name raises ValueError and nothing is written
set_band(self, band, amplitude) ==
    IF band \in OscillationBands
    THEN [error |-> "none", value |-> [self EXCEPT ![band] = Max(0, Min(SCALE, amplitude))]]
    ELSE [error |-> "ValueError", value |-> self]

\* OscillationState.normalize(): the amplitudes are divided by their sum when it
\* is positive
normalize(self) ==
    LET total == self.delta + self.theta + self.alpha + self.beta + self.gamma
    IN IF total > 0
       THEN [delta |-> Div(self.delta, total), theta |-> Div(self.theta, total),
             alpha |-> Div(self.alpha, total), beta |-> Div(self.beta, total),
             gamma |-> Div(self.gamma, total)]
       ELSE self

(***************************************************************************)
(* kinetics/mass_balance.py                                                *)
(***************************************************************************)
compute_reuptake_loss(C, eta_u, u_base) == Mul(Mul(u_base, eta_u), C)
compute_degradation_loss(C, d_base) == Mul(d_base, C)
compute_clearance_loss(C, c_base) == Mul(c_base, C)
compute_total_loss(C, eta_u, u_base, d_base, c_base) ==
    compute_reuptake_loss(C, eta_u, u_base)
      + compute_degradation_loss(C, d_base)
      + compute_clearance_loss(C, c_base)

compute_drift_term(C, C_baseline, theta, eta_u, u_base, d_base, c_base) ==
    LET reversion == Mul(-theta, C - C_baseline)
        loss == -compute_total_loss(C, eta_u, u_base, d_base, c_base)
    IN reversion + loss

\* variant: the noise is additive, sigma whatever the concentration is
compute_diffusion_term_additive(C, sigma, multiplicative) == sigma

compute_diffusion_term(C, sigma, multiplicative) ==
    IF multiplicative THEN Mul(sigma, Sqrt(Max(0, C))) ELSE sigma

compute_effective_reversion_rate(theta_base, fatigue, fatigue_scaling) ==
    LET scaling_factor == SCALE - Mul(fatigue_scaling, fatigue)
    IN Max(0, Mul(theta_base, scaling_factor))

(***************************************************************************)
(* kinetics/release_drives.py                                              *)
(***************************************************************************)
compute_combined_release_drive(novelty_drive, rpe_drive, effort_drive, baseline_release) ==
    baseline_release + novelty_drive + rpe_drive + effort_drive

apply_fatigue_gating(release_drive, fatigue, fatigue_threshold, suppression_factor) ==
    IF fatigue <= fatigue_threshold THEN release_drive
    ELSE LET excess_fatigue == fatigue - fatigue_threshold
             suppression == Div(Mul(suppression_factor, excess_fatigue),
                                SCALE - fatigue_threshold)
             gating == SCALE - suppression
         IN Mul(release_drive, Max(0, gating))

apply_oscillatory_gating(release_drive, oscillation_amplitude, band_preference) ==
    LET modulation == SCALE + Mul(band_preference, oscillation_amplitude)
    IN Mul(release_drive, modulation)

compute_phasic_burst_amplitude(release_drive, receptor_sensitivity, max_burst) ==
    IF release_drive <= 0 THEN 0
    ELSE LET normalized == SCALE - ExpNeg(Mul(receptor_sensitivity, release_drive))
         IN Mul(max_burst, normalized)

(***************************************************************************)
(* stochastic_modulation/euler_maruyama.py                                 *)
(* The Brownian increment dW is always an argument here: when the code     *)
(* draws it with random.gauss, the calling action chooses it.              *)
(***************************************************************************)
euler_maruyama_step(X, drift, diffusion, dt_, dW) ==
    X + Mul(drift, dt_) + Mul(diffusion, dW)

\* the while loop of the reflecting branch
RECURSIVE Reflect(_, _, _)
Reflect(X_next, lower_bound, upper_bound) ==
    IF X_next < lower_bound \/ X_next > upper_bound
    THEN LET a == IF X_next < lower_bound THEN 2 * lower_bound - X_next ELSE X_next
             b == IF a > upper_bound THEN 2 * upper_bound - a ELSE a
         IN Reflect(b, lower_bound, upper_bound)
    ELSE X_next

\* variant: the absorbing branch clamps at the lower bound only
euler_maruyama_step_bounded_no_upper(X, drift, diffusion, dt_, lower_bound, upper_bound, dW, reflection) ==
    LET X_next == euler_maruyama_step(X, drift, diffusion, dt_, dW)
    IN IF reflection
       THEN Reflect(X_next, lower_bound, upper_bound)
       ELSE Max(lower_bound, X_next)

\* variant: the absorbing branch clamps at the upper bound only
euler_maruyama_step_bounded_no_lower(X, drift, diffusion, dt_, lower_bound, upper_bound, dW, reflection) ==
    LET X_next == euler_maruyama_step(X, drift, diffusion, dt_, dW)
    IN IF reflection
       THEN Reflect(X_next, lower_bound, upper_bound)
       ELSE Min(upper_bound, X_next)

euler_maruyama_step_bounded(X, drift, diffusion, dt_, lower_bound, upper_bound, dW, reflection) ==
    LET X_next == euler_maruyama_step(X, drift, diffusion, dt_, dW)
    IN IF reflection
       THEN Reflect(X_next, lower_bound, upper_bound)
       ELSE Max(lower_bound, Min(upper_bound, X_next))

(***************************************************************************)
(* neurosymbolic/metrics.py                                                *)
(***************************************************************************)
Clamp01(x) == Max(0, Min(SCALE, x))

compute_motivation(S_DA_D3, S_OXT, S_GABA_B) ==
    LET raw == S_DA_D3 + S_OXT - S_GABA_B
        normalized == Div(raw + SCALE, 3 * SCALE)
    IN Clamp01(normalized)

compute_empathy(S_OXTR, phi_theta, S_5HT1A) ==
    Mul(Mul(S_OXTR, phi_theta), S_5HT1A)

compute_cognitive_rigidity(S_NE_beta1, S_DA_D2, S_CB1) ==
    LET raw == S_NE_beta1 + S_DA_D2 - S_CB1
        normalized == Div(raw + SCALE, 3 * SCALE)
    IN Clamp01(normalized)

compute_fatigue(S_GABA_B, phi_delta) ==
    LET raw == S_GABA_B + phi_delta
        normalized == Div(raw, 2 * SCALE)
    IN Clamp01(normalized)

compute_precision(S_NE_beta1, S_DA_D2, phi_beta) ==
    LET raw == Mul(S_NE_beta1 + S_DA_D2, phi_beta)
        normalized == Div(raw, 2 * SCALE)
    IN Clamp01(normalized)

compute_openness(S_5HT2A, S_DA_D3, S_5HT1A) ==
    LET raw == S_5HT2A + S_DA_D3 - S_5HT1A
        normalized == Div(raw + SCALE, 3 * SCALE)
    IN Clamp01(normalized)

compute_anxiety(C_NE, C_CRH, C_cortisol, S_GABA_A) ==
    LET raw == Div(C_NE + C_CRH + C_cortisol, 3 * SCALE) - S_GABA_A
        normalized == Div(raw + SCALE, 2 * SCALE)
    IN Clamp01(normalized)

compute_social_engagement(S_OXTR, S_DA_D3, C_cortisol) ==
    LET raw == S_OXTR + S_DA_D3 - C_cortisol
        normalized == Div(raw + SCALE, 3 * SCALE)
    IN Clamp01(normalized)

compute_all_metrics(concentrations, receptor_saturations, oscillations_) ==
    LET get_conc(key) == DictGetDefault(concentrations, key, 0)
        get_sat(key) == DictGetDefault(receptor_saturations, key, 0)
        get_osc(key) == DictGetDefault(oscillations_, key, 0)
    IN [motivation |-> compute_motivation(get_sat(<<"DA", "D3">>), get_sat(<<"OXTR">>),
                                          get_sat(<<"GABA", "B">>)),
        empathy |-> compute_empathy(get_sat(<<"OXTR">>), get_osc("theta"),
                                    get_sat(<<"5HT", "1A">>)),
        cognitive_rigidity |-> compute_cognitive_rigidity(get_sat(<<"NE", "beta1">>),
                                    get_sat(<<"DA", "D2">>), get_sat(<<"CB1">>)),
        fatigue |-> compute_fatigue(get_sat(<<"GABA", "B">>), get_osc("delta")),
        precision |-> compute_precision(get_sat(<<"NE", "beta1">>), get_sat(<<"DA", "D2">>),
                                        get_osc("beta")),
        openness |-> compute_openness(get_sat(<<"5HT", "2A">>), get_sat(<<"DA", "D3">>),
                                      get_sat(<<"5HT", "1A">>)),
        anxiety |-> compute_anxiety(get_conc(<<"NE">>), get_conc(<<"CRH">>),
                                    get_conc(<<"cortisol">>), get_sat(<<"GABA", "A">>)),
        social_engagement |-> compute_social_engagement(get_sat(<<"OXTR">>),
                                    get_sat(<<"DA", "D3">>), get_conc(<<"cortisol">>))]

MetricNames == {"motivation", "empathy", "cognitive_rigidity", "fatigue", "precision",
                "openness", "anxiety", "social_engagement"}

(***************************************************************************)
(* neurosymbolic/readout.py                                                *)
(***************************************************************************)
extract_concentrations(neurotransmitter_states) ==
    [i \in 1..Len(neurotransmitter_states) |->
        <<neurotransmitter_states[i][1], TotalC(neurotransmitter_states[i][2])>>]

K_d_default == 5000

\* receptor_id.split("_")[0]
InferNT(receptor_id) == <<receptor_id[1]>>

ReceptorK_d(receptor_configs, receptor_id) ==
    IF Len(receptor_configs) > 0 /\ DictHas(receptor_configs, receptor_id)
    THEN DictGetDefault(DictGet(receptor_configs, receptor_id), "K_d", K_d_default)
    ELSE K_d_default

\* some receptor's saturation() divides by zero
SaturationsRaise(receptor_states, neurotransmitter_states, receptor_configs) ==
    \E i \in 1..Len(receptor_states) :
        LET receptor_id == receptor_states[i][1]
            nt_name == InferNT(receptor_id)
        IN /\ DictHas(neurotransmitter_states, nt_name)
           /\ SaturationRaises(TotalC(DictGet(neurotransmitter_states, nt_name)),
                               ReceptorK_d(receptor_configs, receptor_id))

extract_receptor_saturations(receptor_states, neurotransmitter_states, receptor_configs) ==
    [i \in 1..Len(receptor_states) |->
        LET receptor_id == receptor_states[i][1]
            nt_name == InferNT(receptor_id)
        IN IF ~DictHas(neurotransmitter_states, nt_name)
           THEN <<receptor_id, 0>>
           ELSE <<receptor_id,
                  Saturation(TotalC(DictGet(neurotransmitter_states, nt_name)),
                             ReceptorK_d(receptor_configs, receptor_id))>>]

\* reads the five band attributes of its argument: AttributeError on None
extract_oscillation_amplitudes(oscillation_state) ==
    << <<"delta", oscillation_state.delta>>, <<"theta", oscillation_state.theta>>,
       <<"alpha", oscillation_state.alpha>>, <<"beta", oscillation_state.beta>>,
       <<"gamma", oscillation_state.gamma>> >>

\* [error, value]: the metrics, or the exception the call raises
compute_neurosymbolic_readout(neurotransmitter_states, receptor_states, oscillation_state, receptor_configs) ==
    IF SaturationsRaise(receptor_states, neurotransmitter_states, receptor_configs)
    THEN [error |-> "ZeroDivisionError", value |-> None]
    ELSE IF oscillation_state = None
    THEN [error |-> "AttributeError", value |-> None]
    ELSE [error |-> "none",
          value |-> Some(compute_all_metrics(
                        extract_concentrations(neurotransmitter_states),
                        extract_receptor_saturations(receptor_states,
                            neurotransmitter_states, receptor_configs),
                        extract_oscillation_amplitudes(oscillation_state[1])))]

(***************************************************************************)
(* core/registry.py                                                        *)
(***************************************************************************)
\* register_neurotransmitter on the pair of dicts it writes
register_neurotransmitter(nts, cfgs, name, state, config) ==
    [neurotransmitters |-> DictPut(nts, name, state),
     configs |-> IF config # None THEN DictPut(cfgs, name, config[1]) ELSE cfgs]

\* register_receptor(receptor_id, state): two parameters, no config
register_receptor(recs, receptor_id, state) == DictPut(recs, receptor_id, state)

\* get_config raises KeyError for a name without a config
get_config_raises(cfgs, name) == ~DictHas(cfgs, name)

neurotransmitter_names(nts) == DictKeys(nts)
receptor_ids(recs) == DictKeys(recs)

(***************************************************************************)
(* core/engine.py                                                          *)
(***************************************************************************)
C_baseline_default == 5000
theta_tonic_default == 1000
theta_phasic_default == 10000
sigma_tonic_default == 500
sigma_phasic_default == 1000
u_base_default == 1000
d_base_default == 500
c_base_default == 200
fatigue_scaling_tonic == 5000
fatigue_scaling_phasic == 3000
fatigue_threshold == 7000
suppression_factor_default == 5000
band_preference == 3000
max_burst == 10000
receptor_sensitivity == 20000
fatigue_rate == 10

\* variant: fatigue follows release, rising under signals and recovering without
UpdatedNeurotransmitter_fatigue_by_release(state, config, modulation_signals, osc, dt_, dW_tonic, dW_phasic) ==
    NeurotransmitterState(state.C_tonic, state.C_phasic,
        IF Len(modulation_signals) > 0 THEN state.F + Mul(fatigue_rate, dt_)
                                       ELSE state.F - Mul(fatigue_rate, dt_),
        state.eta_u)

\* NeurochemicalEngine._update_neurotransmitter up to the new state it registers;
\* dW_tonic and dW_phasic are the two Brownian increments drawn by the integrator
UpdatedNeurotransmitter(state, config, modulation_signals, osc, dt_, dW_tonic, dW_phasic) ==
    LET C_baseline == DictGetDefault(config, "C_baseline", C_baseline_default)
        theta_tonic == DictGetDefault(config, "theta_tonic", theta_tonic_default)
        theta_phasic == DictGetDefault(config, "theta_phasic", theta_phasic_default)
        sigma_tonic == DictGetDefault(config, "sigma_tonic", sigma_tonic_default)
        sigma_phasic == DictGetDefault(config, "sigma_phasic", sigma_phasic_default)
        u_base == DictGetDefault(config, "u_base", u_base_default)
        d_base == DictGetDefault(config, "d_base", d_base_default)
        c_base == DictGetDefault(config, "c_base", c_base_default)
        theta_tonic_eff ==
            compute_effective_reversion_rate(theta_tonic, state.F, fatigue_scaling_tonic)
        theta_phasic_eff ==
            compute_effective_reversion_rate(theta_phasic, state.F, fatigue_scaling_phasic)
        drift_tonic == compute_drift_term(state.C_tonic, C_baseline, theta_tonic_eff,
                                          state.eta_u, u_base, d_base, c_base)
        drift_phasic0 == compute_drift_term(state.C_phasic, 0, theta_phasic_eff,
                                            state.eta_u, u_base, d_base, c_base)
        novelty == DictGetDefault(modulation_signals, "novelty", 0)
        rpe == DictGetDefault(modulation_signals, "rpe", 0)
        effort == DictGetDefault(modulation_signals, "effort", 0)
        release_drive0 == compute_combined_release_drive(novelty, rpe, effort, 0)
        release_drive1 == apply_fatigue_gating(release_drive0, state.F, fatigue_threshold,
                                               suppression_factor_default)
        release_drive2 == IF osc # None
                          THEN apply_oscillatory_gating(release_drive1, osc[1].theta,
                                                        band_preference)
                          ELSE release_drive1
        burst_amplitude ==
            compute_phasic_burst_amplitude(release_drive2, receptor_sensitivity, max_burst)
        drift_phasic == IF Len(modulation_signals) > 0
                        THEN drift_phasic0 + Div(burst_amplitude, dt_)
                        ELSE drift_phasic0
        diffusion_tonic == compute_diffusion_term(state.C_tonic, sigma_tonic, TRUE)
        diffusion_phasic == compute_diffusion_term(state.C_phasic, sigma_phasic, TRUE)
        C_tonic_new == euler_maruyama_step_bounded(state.C_tonic, drift_tonic,
                            diffusion_tonic, dt_, 0, SCALE, dW_tonic, FALSE)
        C_phasic_new == euler_maruyama_step_bounded(state.C_phasic, drift_phasic,
                            diffusion_phasic, dt_, 0, SCALE, dW_phasic, FALSE)
        F_new == Max(0, Min(SCALE, state.F + Mul(fatigue_rate, dt_)))
        eta_u_new == state.eta_u
    IN NeurotransmitterState(C_tonic_new, C_phasic_new, F_new, eta_u_new)

\* variant: a name whose get_config raises is skipped and the loop goes on
RECURSIVE UpdateLoop_skip(_, _, _, _, _, _, _, _)
UpdateLoop_skip(names, i, nts, cfgs, modulation_signals, osc, dt_, dWs) ==
    IF i > Len(names)
    THEN [neurotransmitters |-> nts, configs |-> cfgs, failedAt |-> 0]
    ELSE LET nt_name == names[i]
             nt_signals == DictGetDefault(modulation_signals, nt_name, <<>>)
         IN IF get_config_raises(cfgs, nt_name)
            THEN [UpdateLoop_skip(names, i + 1, nts, cfgs, modulation_signals, osc,
                                  dt_, dWs) EXCEPT !.failedAt = i]
            ELSE LET config == DictGet(cfgs, nt_name)
                     new_state == UpdatedNeurotransmitter(DictGet(nts, nt_name), config,
                                      nt_signals, osc, dt_, dWs[i][1], dWs[i][2])
                     reg == register_neurotransmitter(nts, cfgs, nt_name, new_state,
                                                      Some(config))
                 IN UpdateLoop_skip(names, i + 1, reg.neurotransmitters, reg.configs,
                                    modulation_signals, osc, dt_, dWs)

\* the first loop of step from its i-th name on: each name is updated and written
\* back in turn; the loop stops at the first name whose get_config raises
RECURSIVE UpdateLoop(_, _, _, _, _, _, _, _)
UpdateLoop(names, i, nts, cfgs, modulation_signals, osc, dt_, dWs) ==
    IF i > Len(names)
    THEN [neurotransmitters |-> nts, configs |-> cfgs, failedAt |-> 0]
    ELSE LET nt_name == names[i]
             nt_signals == DictGetDefault(modulation_signals, nt_name, <<>>)
         IN IF get_config_raises(cfgs, nt_name)
            THEN [neurotransmitters |-> nts, configs |-> cfgs, failedAt |-> i]
            ELSE LET config == DictGet(cfgs, nt_name)
                     new_state == UpdatedNeurotransmitter(DictGet(nts, nt_name), config,
                                      nt_signals, osc, dt_, dWs[i][1], dWs[i][2])
                     reg == register_neurotransmitter(nts, cfgs, nt_name, new_state,
                                                      Some(config))
                 IN UpdateLoop(names, i + 1, reg.neurotransmitters, reg.configs,
                               modulation_signals, osc, dt_, dWs)

(***************************************************************************)
(* Engine: inputs of the calls                                             *)
(***************************************************************************)
MaxSteps == 2
MaxEngineCalls == 4

NTNames == {<<"NE">>, <<"OXTR">>}
ReceptorIdChoices == {<<"NE", "beta1">>, <<"OXTR">>}
DtValues == {10000}
DWValues == {-20000, 20000}
\* the Brownian increments of one step: for each neurotransmitter in iteration
\* order, the increment of the tonic and of the phasic integration
DWChoices(n) == {[i \in 1..n |-> <<w, -w>>] : w \in DWValues}

\* initial_state arguments: None, or a state built from raw constructor arguments
InitialNTStates ==
    {None, Some(NeurotransmitterState(15000, 2000, 9000, 5000))}
NTConfigChoices ==
    {None,
     Some(<< <<"C_baseline", 2000>>, <<"sigma_tonic", 30000>>, <<"K_d", 2500>> >>)}
InitialReceptorStates(receptor_id) ==
    {None,
     Some(ReceptorState(receptor_id, 5000, 12000, 5000, 10000, "desensitized", 0, 30000))}
ReceptorConfigChoices == {None, Some(<< <<"K_d", 2500>> >>)}
OscillationChoices == {OscillationState(2000, 5000, 0, 10000, 15000)}
BandChoices == {"theta", "omega"}
AmplitudeChoices == {15000}
ModulationChoices ==
    {None,
     Some(<< <<<<"OXTR">>, << <<"rpe", -5000>>, <<"effort", 3000>> >> >>,
             <<<<"NE">>, << <<"novelty", 9000>> >> >> >>)}

NoResult == [op |-> "init", error |-> "none", failedAt |-> 0, hooks |-> 0,
             key |-> <<>>, value |-> None]

(***************************************************************************)
(* Engine: the calls.  Registration and the oscillation setter can be made *)
(* at any time, before the first step and between steps.                   *)
(***************************************************************************)
\* one more call is made on the engine
EngineCall == ncalls < MaxEngineCalls /\ ncalls' = ncalls + 1

EngineInit ==
    /\ neurotransmitters = <<>>
    /\ receptors = <<>>
    /\ configs = <<>>
    /\ oscillations = None
    /\ current_time = DoubleZero
    /\ dt \in DtValues
    /\ nsteps = 0
    /\ ncalls = 0
    /\ result = NoResult

\* engine.add_neurotransmitter(name, initial_state, config)
add_neurotransmitter(name, initial_state, config) ==
    LET state == IF initial_state = None THEN DefaultNeurotransmitterState
                                         ELSE initial_state[1]
        cfg == IF config = None THEN <<>> ELSE config[1]
        reg == register_neurotransmitter(neurotransmitters, configs, name, state, Some(cfg))
    IN /\ neurotransmitters' = reg.neurotransmitters
       /\ configs' = reg.configs
       /\ result' = [NoResult EXCEPT !.op = "add_neurotransmitter"]
       /\ UNCHANGED <<receptors, oscillations, current_time, dt, nsteps>>

AddNeurotransmitter ==
    /\ EngineCall
    /\ \E name \in NTNames, initial_state \in InitialNTStates, config \in NTConfigChoices :
        add_neurotransmitter(name, initial_state, config)

\* engine.registry.register_neurotransmitter(name, state) with config left None
RegisterNeurotransmitter ==
    /\ EngineCall
    /\ \E name \in NTNames :
        LET reg == register_neurotransmitter(neurotransmitters, configs, name,
                                             DefaultNeurotransmitterState, None)
        IN /\ neurotransmitters' = reg.neurotransmitters
           /\ configs' = reg.configs
           /\ result' = [NoResult EXCEPT !.op = "register_neurotransmitter"]
           /\ UNCHANGED <<receptors, oscillations, current_time, dt, nsteps>>

\* engine.add_receptor(receptor_id, initial_state, config): it passes three
\* arguments to register_receptor, which takes two, so the call raises TypeError
\* before the registry is written
add_receptor(receptor_id, initial_state, config) ==
    /\ result' = [NoResult EXCEPT !.op = "add_receptor", !.error = "TypeError",
                                  !.key = receptor_id, !.value = initial_state]
    /\ UNCHANGED <<neurotransmitters, receptors, configs, oscillations,
                   current_time, dt, nsteps>>

AddReceptor ==
    /\ EngineCall
    /\ \E receptor_id \in ReceptorIdChoices, config \in ReceptorConfigChoices :
        \E initial_state \in InitialReceptorStates(receptor_id) :
            add_receptor(receptor_id, initial_state, config)

\* engine.registry.register_receptor(receptor_id, ReceptorState(receptor_id))
RegisterReceptor ==
    /\ EngineCall
    /\ \E receptor_id \in ReceptorIdChoices :
        /\ receptors' = register_receptor(receptors, receptor_id,
                                          DefaultReceptorState(receptor_id))
        /\ result' = [NoResult EXCEPT !.op = "register_receptor"]
        /\ UNCHANGED <<neurotransmitters, configs, oscillations, current_time, dt, nsteps>>

\* engine.set_oscillation_state(oscillation_state)
SetOscillationState ==
    /\ EngineCall
    /\ \E oscillation_state \in OscillationChoices :
        /\ oscillations' = Some(oscillation_state)
        /\ result' = [NoResult EXCEPT !.op = "set_oscillation_state"]
        /\ UNCHANGED <<neurotransmitters, receptors, configs, current_time, dt, nsteps>>

\* set_band(band, amplitude) called on the OscillationState object the registry
\* holds: the engine keeps the object it was given, not a copy
SetBand ==
    /\ EngineCall
    /\ oscillations # None
    /\ \E band \in BandChoices, amplitude \in AmplitudeChoices :
        \E r \in {set_band(oscillations[1], band, amplitude)} :
            /\ oscillations' = Some(r.value)
            /\ result' = [NoResult EXCEPT !.op = "set_band", !.error = r.error]
    /\ UNCHANGED <<neurotransmitters, receptors, configs, current_time, dt, nsteps>>

\* normalize() called on the OscillationState object the registry holds
Normalize ==
    /\ EngineCall
    /\ oscillations # None
    /\ oscillations' = Some(normalize(oscillations[1]))
    /\ result' = [NoResult EXCEPT !.op = "normalize"]
    /\ UNCHANGED <<neurotransmitters, receptors, configs, current_time, dt, nsteps>>

\* variant: a signal key that names no registered neurotransmitter is an error
step_rejecting_unknown(modulation_signals, dWs) ==
    LET signals == IF modulation_signals = None THEN <<>> ELSE modulation_signals[1]
        names == neurotransmitter_names(neurotransmitters)
        unknown == \E j \in 1..Len(signals) : ~DictHas(neurotransmitters, signals[j][1])
    IN \E upd \in {UpdateLoop(names, 1, neurotransmitters, configs, signals,
                               oscillations, dt, dWs)} :
          /\ nsteps' = nsteps + 1
          /\ IF upd.failedAt = 0 /\ ~unknown
             THEN /\ neurotransmitters' = upd.neurotransmitters
                  /\ configs' = upd.configs
                  /\ current_time' = DoubleAdd(current_time, DoubleOf(dt))
                  /\ result' = [NoResult EXCEPT !.op = "step",
                                                !.hooks = Len(receptor_ids(receptors))]
             ELSE /\ UNCHANGED <<neurotransmitters, configs, current_time>>
                  /\ result' = [NoResult EXCEPT !.op = "step", !.error = "KeyError"]
          /\ UNCHANGED <<receptors, oscillations, dt>>

\* variant: the receptor hook is not a no-op but adds dt to time_in_state
step_updating_receptors(modulation_signals, dWs) ==
    LET signals == IF modulation_signals = None THEN <<>> ELSE modulation_signals[1]
        names == neurotransmitter_names(neurotransmitters)
    IN \E upd \in {UpdateLoop(names, 1, neurotransmitters, configs, signals,
                               oscillations, dt, dWs)} :
          /\ neurotransmitters' = upd.neurotransmitters
          /\ configs' = upd.configs
          /\ nsteps' = nsteps + 1
          /\ IF upd.failedAt = 0
             THEN /\ current_time' = DoubleAdd(current_time, DoubleOf(dt))
                  /\ receptors' = [i \in 1..Len(receptors) |->
                        <<receptors[i][1],
                          [receptors[i][2] EXCEPT !.time_in_state = @ + dt]>>]
                  /\ result' = [NoResult EXCEPT !.op = "step",
                                                !.hooks = Len(receptor_ids(receptors))]
             ELSE /\ current_time' = current_time
                  /\ receptors' = receptors
                  /\ result' = [NoResult EXCEPT !.op = "step", !.error = "KeyError",
                                                !.failedAt = upd.failedAt]
          /\ UNCHANGED <<oscillations, dt>>

\* variant: the time update is made whether or not the first loop completed
step_advance_on_failure(modulation_signals, dWs) ==
    LET signals == IF modulation_signals = None THEN <<>> ELSE modulation_signals[1]
        names == neurotransmitter_names(neurotransmitters)
    IN \E upd \in {UpdateLoop(names, 1, neurotransmitters, configs, signals,
                               oscillations, dt, dWs)} :
          /\ neurotransmitters' = upd.neurotransmitters
          /\ configs' = upd.configs
          /\ nsteps' = nsteps + 1
          /\ current_time' = DoubleAdd(current_time, DoubleOf(dt))
          /\ IF upd.failedAt = 0
             THEN result' = [NoResult EXCEPT !.op = "step",
                                             !.hooks = Len(receptor_ids(receptors))]
             ELSE result' = [NoResult EXCEPT !.op = "step", !.error = "KeyError",
                                             !.failedAt = upd.failedAt]
          /\ UNCHANGED <<receptors, oscillations, dt>>

\* engine.step(modulation_signals)
step(modulation_signals, dWs) ==
    LET signals == IF modulation_signals = None THEN <<>> ELSE modulation_signals[1]
        names == neurotransmitter_names(neurotransmitters)
    IN \E upd \in {UpdateLoop(names, 1, neurotransmitters, configs, signals,
                               oscillations, dt, dWs)} :
          /\ neurotransmitters' = upd.neurotransmitters
          /\ configs' = upd.configs
          /\ nsteps' = nsteps + 1
          /\ IF upd.failedAt = 0
             THEN \* the receptor loop calls the no-op hook once per receptor id
                  /\ current_time' = DoubleAdd(current_time, DoubleOf(dt))
                  /\ result' = [NoResult EXCEPT !.op = "step",
                                                !.hooks = Len(receptor_ids(receptors))]
             ELSE \* KeyError leaves step before the receptor loop and the time update
                  /\ current_time' = current_time
                  /\ result' = [NoResult EXCEPT !.op = "step", !.error = "KeyError",
                                                !.failedAt = upd.failedAt]
          /\ UNCHANGED <<receptors, oscillations, dt>>

Step ==
    /\ EngineCall
    /\ nsteps < MaxSteps
    /\ \E modulation_signals \in ModulationChoices :
         \E dWs \in DWChoices(Len(neurotransmitters)) :
            step(modulation_signals, dWs)

\* engine.get_neurosymbolic_readout()
get_neurosymbolic_readout ==
    IF \E i \in 1..Len(receptors) : get_config_raises(configs, receptors[i][1])
    THEN [error |-> "KeyError", value |-> None]
    ELSE LET receptor_configs ==
                 [i \in 1..Len(receptors) |->
                     <<receptors[i][1],
                       << <<"K_d", DictGetDefault(DictGet(configs, receptors[i][1]),
                                                  "K_d", K_d_default)>> >> >>]
         IN compute_neurosymbolic_readout(neurotransmitters, receptors, oscillations,
                                          receptor_configs)

GetNeurosymbolicReadout ==
    /\ EngineCall
    /\ \E r \in {get_neurosymbolic_readout} :
          result' = [NoResult EXCEPT !.op = "get_neurosymbolic_readout",
                                    !.error = r.error, !.value = r.value]
    /\ UNCHANGED <<neurotransmitters, receptors, configs, oscillations,
                   current_time, dt, nsteps>>

EngineNext ==
    \/ AddNeurotransmitter
    \/ RegisterNeurotransmitter
    \/ AddReceptor
    \/ RegisterReceptor
    \/ SetOscillationState
    \/ SetBand
    \/ Normalize
    \/ Step
    \/ GetNeurosymbolicReadout

PureIdle == args = <<>> /\ ret = <<>>
ReceptorIdle == receptor = <<>> /\ sinceChange = 0
BridgeIdle == bridge = <<>> /\ verdict = <<>>
SchedulerIdle == scheduler = <<>> /\ triggered = <<>>

Init == EngineInit /\ PureIdle /\ ReceptorIdle /\ BridgeIdle /\ SchedulerIdle
Next == EngineNext /\ UNCHANGED pureVars /\ UNCHANGED receptorVars /\ UNCHANGED bridgeVars /\ UNCHANGED schedulerVars
Spec == Init /\ [][Next]_vars

(***************************************************************************)
(* Engine: properties                                                      *)
(***************************************************************************)
InUnit(x) == 0 <= x /\ x <= SCALE
StepCompleted == result.op = "step" /\ result.error = "none"
StepFailed == result.op = "step" /\ result.error = "KeyError"
ReadoutCalled == result.op = "get_neurosymbolic_readout"
MetricsInUnit(m) == \A name \in MetricNames : InUnit(m[name])

\* C1: after every completed step, every registered neurotransmitter state has
\* C_tonic, C_phasic, F and eta_u in [0,1], whatever the initial states, the
\* modulation signals and the Brownian increments were.
Thm_C1 ==
    StepCompleted =>
        \A i \in 1..Len(neurotransmitters) :
            LET state == neurotransmitters[i][2]
            IN /\ InUnit(state.C_tonic) /\ InUnit(state.C_phasic)
               /\ InUnit(state.F) /\ InUnit(state.eta_u)

\* a second completed step over two neurotransmitters, one of them registered
\* with C_tonic above 1 and now clamped to the upper bound
Witness_C1 ==
    /\ StepCompleted
    /\ nsteps = 2
    /\ Len(neurotransmitters) = 2
    /\ \E i \in 1..2 : neurotransmitters[i][2].C_tonic = SCALE
    /\ \E i \in 1..2 : neurotransmitters[i][2].C_phasic > 0

\* C7: when step fails with a not-found error at the k-th neurotransmitter, the
\* ones before it hold their updated states, the k-th and the later ones hold
\* their pre-step states, no receptor hook has run and current_time is unchanged.
Thm_C7 ==
    [][(result'.op = "step" /\ result'.error = "KeyError") =>
         LET k == result'.failedAt
             n == Len(neurotransmitters)
         IN /\ k \in 1..n
            /\ neurotransmitter_names(neurotransmitters')
                 = neurotransmitter_names(neurotransmitters)
            /\ \A i \in k..n : neurotransmitters'[i] = neurotransmitters[i]
            /\ \A i \in 1..(k - 1) :
                 \E modulation_signals \in ModulationChoices, dWs \in DWChoices(n) :
                    neurotransmitters'[i][2] =
                        UpdatedNeurotransmitter(
                            neurotransmitters[i][2],
                            DictGet(configs, neurotransmitters[i][1]),
                            DictGetDefault(IF modulation_signals = None THEN <<>>
                                           ELSE modulation_signals[1],
                                           neurotransmitters[i][1], <<>>),
                            oscillations, dt, dWs[i][1], dWs[i][2])
            /\ \A i \in 1..(k - 1) : neurotransmitters'[i][2] # neurotransmitters[i][2]
            /\ result'.hooks = 0
            /\ current_time' = current_time]_vars

\* a step that failed at the second of two neurotransmitters, the second one
\* configured-less but not the first, with a receptor registered
Witness_C7 ==
    /\ StepFailed
    /\ result.failedAt = 2
    /\ Len(neurotransmitters) = 2
    /\ Len(receptors) > 0
    /\ neurotransmitters[1][2].F > 0

\* C8: add_receptor raises no error and registers the receptor with the supplied
\* state, or with a default ReceptorState (chi active, time_in_state 0).
Claim_C8 ==
    result.op = "add_receptor" =>
        /\ result.error = "none"
        /\ DictHas(receptors, result.key)
        /\ DictGet(receptors, result.key) =
              (IF result.value = None THEN DefaultReceptorState(result.key)
                                      ELSE result.value[1])

\* C9: with no oscillation state ever set, get_neurosymbolic_readout completes
\* and returns the 8 metrics, each in [0,1].
Claim_C9 ==
    (ReadoutCalled /\ oscillations = None) =>
        /\ result.error = "none"
        /\ result.value # None
        /\ MetricsInUnit(result.value[1])

\* C10: with receptors registered, get_neurosymbolic_readout completes without a
\* not-found error.
Claim_C10 ==
    (ReadoutCalled /\ Len(receptors) > 0) => result.error # "KeyError"

\* the state of the i-th neurotransmitter after the step is its update from the
\* state before it, for some signals and increments the step can be called with
UpdatedByStep(i) ==
    \E modulation_signals \in ModulationChoices, dWs \in DWChoices(Len(neurotransmitters)) :
        neurotransmitters'[i][2] =
            UpdatedNeurotransmitter(
                neurotransmitters[i][2],
                DictGet(configs, neurotransmitters[i][1]),
                DictGetDefault(IF modulation_signals = None THEN <<>>
                               ELSE modulation_signals[1],
                               neurotransmitters[i][1], <<>>),
                oscillations, dt, dWs[i][1], dWs[i][2])

\* C22: a completed step leaves unchanged every neurotransmitter's eta_u and
\* config, the registered neurotransmitter names and receptor ids and their
\* iteration order, every receptor state and the oscillation state; it changes
\* only C_tonic, C_phasic and F of the neurotransmitters, and current_time.
Thm_C22 ==
    [][(result'.op = "step" /\ result'.error = "none") =>
          /\ neurotransmitter_names(neurotransmitters')
                = neurotransmitter_names(neurotransmitters)
          /\ \A i \in 1..Len(neurotransmitters) :
                neurotransmitters'[i][2].eta_u = neurotransmitters[i][2].eta_u
          /\ configs' = configs
          /\ receptors' = receptors
          /\ oscillations' = oscillations
          /\ dt' = dt]_vars

\* a completed step over a neurotransmitter with eta_u = 0.5 and a config of its
\* own, with a receptor registered and the oscillation state set
Witness_C22 ==
    /\ StepCompleted
    /\ Len(neurotransmitters) > 0
    /\ neurotransmitters[1][2].eta_u = 5000
    /\ neurotransmitters[1][2].F > 9000
    /\ Len(configs[1][2]) > 0
    /\ Len(receptors) > 0
    /\ oscillations # None

(***************************************************************************)
(* The clock over longer runs: a fresh engine with one of three time steps, *)
(* the default 0.01 among them, on which neurotransmitters and receptors   *)
(* are registered and steps are made.  current_time is a float, and each   *)
(* completed step adds the float dt to it in float arithmetic.             *)
(***************************************************************************)
MaxClockCalls == 8
ClockDtValues == {100, 1000, SCALE}

InitClock ==
    /\ neurotransmitters = <<>>
    /\ receptors = <<>>
    /\ configs = <<>>
    /\ oscillations = None
    /\ current_time = DoubleZero
    /\ dt \in ClockDtValues
    /\ nsteps = 0
    /\ ncalls = 0
    /\ result = NoResult
    /\ PureIdle /\ ReceptorIdle /\ BridgeIdle /\ SchedulerIdle

\* one more call is made on the engine
ClockCall == ncalls < MaxClockCalls /\ ncalls' = ncalls + 1

\* engine.add_neurotransmitter(name)
ClockAddNeurotransmitter ==
    /\ ClockCall
    /\ \E name \in {<<"NE">>} : add_neurotransmitter(name, None, None)

\* engine.registry.register_neurotransmitter(name, state) with config left None
ClockRegisterNeurotransmitter ==
    /\ ClockCall
    /\ \E name \in {<<"OXTR">>} :
        LET reg == register_neurotransmitter(neurotransmitters, configs, name,
                                             DefaultNeurotransmitterState, None)
        IN /\ neurotransmitters' = reg.neurotransmitters
           /\ configs' = reg.configs
           /\ result' = [NoResult EXCEPT !.op = "register_neurotransmitter"]
           /\ UNCHANGED <<receptors, oscillations, current_time, dt, nsteps>>

\* engine.registry.register_receptor(receptor_id, ReceptorState(receptor_id))
ClockRegisterReceptor ==
    /\ ClockCall
    /\ \E receptor_id \in {<<"OXTR">>} :
        /\ receptors' = register_receptor(receptors, receptor_id,
                                          DefaultReceptorState(receptor_id))
        /\ result' = [NoResult EXCEPT !.op = "register_receptor"]
        /\ UNCHANGED <<neurotransmitters, configs, oscillations, current_time, dt, nsteps>>

\* engine.step()
ClockStep ==
    /\ ClockCall
    /\ \E dWs \in DWChoices(Len(neurotransmitters)) : step(None, dWs)

NextClock ==
    /\ \/ ClockAddNeurotransmitter
       \/ ClockRegisterNeurotransmitter
       \/ ClockRegisterReceptor
       \/ ClockStep
    /\ UNCHANGED pureVars /\ UNCHANGED receptorVars /\ UNCHANGED bridgeVars /\ UNCHANGED schedulerVars
SpecClock == InitClock /\ [][NextClock]_vars

\* dt added n times to 0.0, each sum rounded as a float sum is
RECURSIVE Accumulated(_, _)
Accumulated(n, a) == IF n = 0 THEN DoubleZero ELSE DoubleAdd(Accumulated(n - 1, a), a)

\* C21 as stated: after n completed steps from a fresh engine current_time equals
\* n * dt (the float product; the step calls made so far bound n).
Claim_C21 == \E n \in 0..nsteps : current_time = DoubleTimes(n, DoubleOf(dt))

\* C21, amended: a completed step sets current_time to the float sum
\* current_time + dt, after every registered neurotransmitter has been updated
\* and the hook of every registered receptor has run; nothing but a completed
\* step changes current_time; after n completed steps from a fresh engine
\* current_time is dt added n times to 0.0 in float arithmetic (nsteps counts the
\* step calls, which are the completed steps on a run where no step fails), and
\* that is n * dt when dt is a power of two.
Thm_C21 ==
    /\ ([]~StepFailed) => [](current_time = Accumulated(nsteps, DoubleOf(dt)))
    /\ [](\E n \in 0..nsteps : current_time = Accumulated(n, DoubleOf(dt)))
    /\ [](dt = SCALE => \E n \in 0..nsteps : current_time = DoubleTimes(n, DoubleOf(dt)))
    /\ [][/\ (result'.op = "step" /\ result'.error = "none") =>
                /\ current_time' = DoubleAdd(current_time, DoubleOf(dt))
                /\ \A i \in 1..Len(neurotransmitters) : UpdatedByStep(i)
                /\ result'.hooks = Len(receptors)
          /\ current_time' # current_time =>
                (result'.op = "step" /\ result'.error = "none")]_vars

\* six completed steps of the default dt = 0.01 over a registered neurotransmitter
\* and a receptor: the clock reads 0.060000000000000005, and 6 * 0.01 is 0.06
Witness_C21 ==
    /\ StepCompleted
    /\ nsteps = 6
    /\ dt = 100
    /\ current_time = DoubleAdd(DoubleTimes(5, Double_0_01), Double_0_01)
    /\ current_time # DoubleTimes(6, Double_0_01)
    /\ Len(neurotransmitters) > 0
    /\ result.hooks > 0

(***************************************************************************)
(* compute_all_metrics on its own: the three input dicts are drawn with    *)
(* values inside and outside [0,1] and with keys missing                   *)
(***************************************************************************)
MetricValueChoices == {None, Some(-5000), Some(0), Some(5000), Some(10000), Some(20000)}

\* the dict giving every key of keys the value v[1], or the empty dict for None
DictOf(keys, v) == IF v = None THEN <<>> ELSE [i \in 1..Len(keys) |-> <<keys[i], v[1]>>]

MetricsInputs ==
    {[fn |-> "compute_all_metrics",
      concentrations |-> DictOf(<< <<"NE">>, <<"CRH">>, <<"cortisol">> >>, c),
      receptor_saturations |->
          DictOf(<< <<"DA", "D3">>, <<"OXTR">>, <<"5HT", "2A">> >>, s1)
            \o DictOf(<< <<"GABA", "B">>, <<"5HT", "1A">>, <<"CB1">>, <<"GABA", "A">> >>, s2)
            \o DictOf(<< <<"NE", "beta1">>, <<"DA", "D2">> >>, s3),
      oscillations |-> DictOf(<<"delta", "theta", "alpha", "beta", "gamma">>, o)] :
        c \in MetricValueChoices, s1 \in MetricValueChoices, s2 \in MetricValueChoices,
        s3 \in MetricValueChoices, o \in MetricValueChoices}

MetricsInit == args \in MetricsInputs /\ ret = None

ComputeAllMetrics ==
    /\ ret = None
    /\ ret' = Some(compute_all_metrics(args.concentrations, args.receptor_saturations,
                                       args.oscillations))
    /\ UNCHANGED args

EngineIdle ==
    /\ neurotransmitters = <<>> /\ receptors = <<>> /\ configs = <<>>
    /\ oscillations = None /\ current_time = DoubleZero /\ dt = 0 /\ nsteps = 0 /\ ncalls = 0
    /\ result = NoResult

InitMetrics == MetricsInit /\ EngineIdle /\ ReceptorIdle /\ BridgeIdle /\ SchedulerIdle
NextMetrics == ComputeAllMetrics /\ UNCHANGED engineVars /\ UNCHANGED receptorVars /\ UNCHANGED bridgeVars /\ UNCHANGED schedulerVars
SpecMetrics == InitMetrics /\ [][NextMetrics]_vars

\* C2: for any concentrations, saturations and amplitudes, values outside [0,1]
\* and missing keys included, each of the 8 metrics lies in [0,1].
Claim_C2 == ret # None => MetricsInUnit(ret[1])

(***************************************************************************)
(* euler_maruyama_step_bounded on its own                                  *)
(***************************************************************************)
BoundedInputs ==
    {[fn |-> "euler_maruyama_step_bounded", X |-> X, drift |-> drift,
      diffusion |-> diffusion, dt |-> h, lower_bound |-> b[1], upper_bound |-> b[2],
      dW |-> dW, reflection |-> FALSE] :
        X \in {-5000, 0, 5000, 15000}, drift \in {-20000, 0, 20000},
        diffusion \in {0, 5000}, h \in {100, 10000}, dW \in {-30000, 0, 30000},
        b \in {<<0, SCALE>>, <<-5000, 5000>>, <<2000, 2000>>}}

BoundedInit == args \in BoundedInputs /\ ret = None

EulerMaruyamaStepBounded ==
    /\ ret = None
    /\ ret' = Some(euler_maruyama_step_bounded(args.X, args.drift, args.diffusion, args.dt,
                       args.lower_bound, args.upper_bound, args.dW, args.reflection))
    /\ UNCHANGED args

InitBounded == BoundedInit /\ EngineIdle /\ ReceptorIdle /\ BridgeIdle /\ SchedulerIdle
NextBounded == EulerMaruyamaStepBounded /\ UNCHANGED engineVars /\ UNCHANGED receptorVars /\ UNCHANGED bridgeVars /\ UNCHANGED schedulerVars
SpecBounded == InitBounded /\ [][NextBounded]_vars

\* C3: in absorbing mode (reflection = false) euler_maruyama_step_bounded returns
\* a value inside [lower_bound, upper_bound] for every X, drift, diffusion, dt, dW.
Thm_C3 ==
    (ret # None /\ ~args.reflection) =>
        (args.lower_bound <= ret[1] /\ ret[1] <= args.upper_bound)

\* the unconstrained step left the interval below and the call returned the bound
Witness_C3 ==
    /\ ret # None /\ ~args.reflection
    /\ euler_maruyama_step(args.X, args.drift, args.diffusion, args.dt, args.dW)
         < args.lower_bound
    /\ ret[1] = args.lower_bound
    /\ args.lower_bound < args.upper_bound

(***************************************************************************)
(* adaptive_step_euler_maruyama on its own                                 *)
(***************************************************************************)
MaxAttempts == 3
SQRT2 == 14142
GROW == 15000
SHRINK == 5000

\* dWs: the Brownian increments of the successive attempts, the caller's dW (or
\* the first draw) first, then one fresh draw per retry, since the recursive
\* call passes no dW.  None while the draws given do not reach an accepted step.
RECURSIVE adaptive_step_euler_maruyama(_, _, _, _, _, _, _, _)
adaptive_step_euler_maruyama(X, drift, diffusion, dt_, tolerance, min_dt, max_dt, dWs) ==
    IF dWs = <<>> THEN None
    ELSE LET dW == Head(dWs)
             X_full == euler_maruyama_step(X, drift, diffusion, dt_, dW)
             dW_half1 == Div(dW, SQRT2)
             dW_half2 == Div(dW, SQRT2)
             X_half1 == euler_maruyama_step(X, drift, diffusion, RDiv(dt_, 2), dW_half1)
             X_half2 == euler_maruyama_step(X_half1, drift, diffusion, RDiv(dt_, 2), dW_half2)
             error == Abs(X_full - X_half2)
         IN IF error < tolerance
            THEN Some([next_state |-> X_full, accepted_dt |-> Min(max_dt, Mul(dt_, GROW))])
            ELSE adaptive_step_euler_maruyama(X, drift, diffusion,
                     Max(min_dt, Mul(dt_, SHRINK)), tolerance, min_dt, max_dt, Tail(dWs))

AdaptiveDWValues == {0, 2000}
AdaptiveInputs ==
    {[fn |-> "adaptive_step_euler_maruyama", X |-> X, drift |-> drift,
      diffusion |-> diffusion, dt |-> h, tolerance |-> tol, min_dt |-> b[1],
      max_dt |-> b[2], dW |-> dW] :
        X \in {0, 5000}, drift \in {-1000, 20000}, diffusion \in {0, 5000},
        h \in {40, 50, 1000, 8000, 20000}, tol \in {10, 1000},
        b \in {<<100, 10000>>, <<1000, 1000>>},
        dW \in {None} \cup {Some(w) : w \in AdaptiveDWValues}}

\* sequences over S of length n
RECURSIVE SeqsOfLen(_, _)
SeqsOfLen(S, n) ==
    IF n = 0 THEN {<<>>}
    ELSE {Append(q, x) : q \in SeqsOfLen(S, n - 1), x \in S}

AdaptiveInit == args \in AdaptiveInputs /\ ret = None

AdaptiveStepEulerMaruyama ==
    /\ ret = None
    /\ \E k \in 1..MaxAttempts :
         \E draws \in SeqsOfLen(AdaptiveDWValues, k - (IF args.dW = None THEN 0 ELSE 1)) :
            \E r \in {adaptive_step_euler_maruyama(args.X, args.drift, args.diffusion,
                         args.dt, args.tolerance, args.min_dt, args.max_dt,
                         args.dW \o draws)} :
               /\ r # None
               /\ ret' = r
    /\ UNCHANGED args

InitAdaptive == AdaptiveInit /\ EngineIdle /\ ReceptorIdle /\ BridgeIdle /\ SchedulerIdle
NextAdaptive == AdaptiveStepEulerMaruyama /\ UNCHANGED engineVars /\ UNCHANGED receptorVars /\ UNCHANGED bridgeVars /\ UNCHANGED schedulerVars
SpecAdaptive == InitAdaptive /\ [][NextAdaptive]_vars

\* C4: for every proposed dt > 0 and min_dt <= max_dt the returned step size
\* lies in [min_dt, max_dt], on first acceptance or after retries.
Claim_C4 ==
    ret # None =>
        (args.min_dt <= ret[1].accepted_dt /\ ret[1].accepted_dt <= args.max_dt)

(***************************************************************************)
(* neurosymbolic/tags.py.  A Python string is the sequence of its tokens:  *)
(* the delimiters "_", "→", ":", "{", "}" and " " are tokens of their own, *)
(* every maximal run of other characters is one token.  An enum member is  *)
(* the record of its name and its value, both strings.                     *)
(***************************************************************************)
Tag(name, value) == [name |-> name, value |-> value]

NeurotransmitterTag ==
    {Tag(<<"DA">>, <<"dopamine">>), Tag(<<"GABA">>, <<"gaba">>),
     Tag(<<"GLU">>, <<"glutamate">>), Tag(<<"SEROTONIN">>, <<"5-HT">>),
     Tag(<<"NE">>, <<"norepinephrine">>), Tag(<<"ACH">>, <<"acetylcholine">>),
     Tag(<<"OXT">>, <<"oxytocin">>), Tag(<<"MOR">>, <<"mu-opioid">>),
     Tag(<<"CB1">>, <<"cannabinoid">>), Tag(<<"CRH">>, <<"corticotropin">>),
     Tag(<<"CORTISOL">>, <<"cortisol">>), Tag(<<"HISTAMINE">>, <<"histamine">>)}

\* a member whose name and value are the same string family_subtype
SameTag(family, subtype) == Tag(<<family, "_", subtype>>, <<family, "_", subtype>>)

ReceptorTag ==
    {SameTag("DA", "D1"), SameTag("DA", "D2"), SameTag("DA", "D3"),
     SameTag("DA", "D4"), SameTag("DA", "D5"),
     SameTag("GABA", "A"), SameTag("GABA", "B"),
     SameTag("GLU", "NMDA"), SameTag("GLU", "AMPA"), SameTag("GLU", "KAINATE"),
     SameTag("GLU", "mGluR"),
     Tag(<<"SEROTONIN", "_", "1A">>, <<"5HT", "_", "1A">>),
     Tag(<<"SEROTONIN", "_", "1B">>, <<"5HT", "_", "1B">>),
     Tag(<<"SEROTONIN", "_", "2A">>, <<"5HT", "_", "2A">>),
     Tag(<<"SEROTONIN", "_", "2C">>, <<"5HT", "_", "2C">>),
     Tag(<<"SEROTONIN", "_", "3">>, <<"5HT", "_", "3">>),
     Tag(<<"NE", "_", "ALPHA1">>, <<"NE", "_", "alpha1">>),
     Tag(<<"NE", "_", "ALPHA2">>, <<"NE", "_", "alpha2">>),
     Tag(<<"NE", "_", "BETA1">>, <<"NE", "_", "beta1">>),
     Tag(<<"NE", "_", "BETA2">>, <<"NE", "_", "beta2">>),
     Tag(<<"ACH", "_", "NICOTINIC">>, <<"ACh", "_", "nicotinic">>),
     Tag(<<"ACH", "_", "MUSCARINIC">>, <<"ACh", "_", "muscarinic">>),
     Tag(<<"OXTR">>, <<"OXTR">>),
     Tag(<<"MOR", "_", "MU">>, <<"MOR", "_", "mu">>),
     Tag(<<"CB1", "_", "RECEPTOR">>, <<"CB1">>),
     SameTag("CRH", "R1")}

OscillationBandTag ==
    {Tag(<<"DELTA">>, <<"delta">>), Tag(<<"THETA">>, <<"theta">>),
     Tag(<<"ALPHA">>, <<"alpha">>), Tag(<<"BETA">>, <<"beta">>),
     Tag(<<"GAMMA">>, <<"gamma">>)}

ModifierTag ==
    {Tag(<<"UP", "_", "DENSITY">>, <<"↑density">>),
     Tag(<<"DOWN", "_", "DENSITY">>, <<"↓density">>),
     Tag(<<"UP", "_", "SENSITIVITY">>, <<"↑sensitivity">>),
     Tag(<<"DOWN", "_", "SENSITIVITY">>, <<"↓sensitivity">>),
     Tag(<<"DESENSITIZED">>, <<"desensitized">>),
     Tag(<<"INTERNALIZED">>, <<"internalized">>),
     Tag(<<"UPREGULATED">>, <<"upregulated">>),
     Tag(<<"ACTIVE">>, <<"active">>),
     Tag(<<"UP", "_", "AFFINITY">>, <<"↑affinity">>),
     Tag(<<"DOWN", "_", "AFFINITY">>, <<"↓affinity">>),
     Tag(<<"UP", "_", "RELEASE">>, <<"↑release">>),
     Tag(<<"DOWN", "_", "RELEASE">>, <<"↓release">>),
     Tag(<<"UP", "_", "REUPTAKE">>, <<"↑reuptake">>),
     Tag(<<"DOWN", "_", "REUPTAKE">>, <<"↓reuptake">>)}

\* str methods on token sequences
Contains(str, c) == \E i \in 1..Len(str) : str[i] = c
IndexOf(str, c) ==
    IF Contains(str, c) THEN CHOOSE i \in 1..Len(str) :
                                 str[i] = c /\ \A j \in 1..(i - 1) : str[j] # c
    ELSE 0
\* str.split(c)
RECURSIVE Split(_, _)
Split(str, c) ==
    LET i == IndexOf(str, c)
    IN IF i = 0 THEN <<str>>
       ELSE <<SubSeq(str, 1, i - 1)>> \o Split(SubSeq(str, i + 1, Len(str)), c)
\* str.split(c, 1)
Split1(str, c) ==
    LET i == IndexOf(str, c)
    IN IF i = 0 THEN <<str>>
       ELSE <<SubSeq(str, 1, i - 1), SubSeq(str, i + 1, Len(str))>>
\* str.rstrip(c), str.lstrip(c), str.strip()
RECURSIVE RStrip(_, _)
RStrip(str, c) ==
    IF str # <<>> /\ str[Len(str)] = c THEN RStrip(SubSeq(str, 1, Len(str) - 1), c)
    ELSE str
RECURSIVE LStrip(_, _)
LStrip(str, c) == IF str # <<>> /\ Head(str) = c THEN LStrip(Tail(str), c) ELSE str
Strip(str) == LStrip(RStrip(str, " "), " ")

encode_neurosymbolic_triplet(neurotransmitter, receptor_, modifier, oscillation_gate) ==
    LET nt_short == neurotransmitter.name
        parts == Split(receptor_.value, "_")
        receptor_short == parts[Len(parts)]
        modifier_short == modifier.value
        base == nt_short \o <<"→">> \o receptor_short \o <<":">> \o modifier_short
    IN IF oscillation_gate # None
       THEN oscillation_gate[1].value \o <<"{">> \o base \o <<"}">>
       ELSE base

ParseError ==
    [error |-> "ValueError", neurotransmitter |-> <<>>, receptor |-> <<>>,
     modifier |-> <<>>, oscillation_gate |-> None]

\* the returned dict holds strings; oscillation_gate is None or Some(string)
parse_neurosymbolic_triplet(encoded) ==
    LET gated == Contains(encoded, "{") /\ Contains(encoded, "}")
        halves == Split1(encoded, "{")
        oscillation_gate == IF gated THEN Some(Strip(halves[1])) ELSE None
        inner == IF gated THEN RStrip(halves[2], "}") ELSE encoded
        parts == Split(inner, "→")
        receptor_modifier == Split1(parts[2], ":")
    IN IF Len(parts) # 2 THEN ParseError
       ELSE IF Len(receptor_modifier) # 2 THEN ParseError
       ELSE [error |-> "none",
             neurotransmitter |-> Strip(parts[1]),
             receptor |-> Strip(receptor_modifier[1]),
             modifier |-> Strip(receptor_modifier[2]),
             oscillation_gate |-> oscillation_gate]

TagInputs ==
    {[fn |-> "parse(encode)", neurotransmitter |-> nt, receptor |-> r, modifier |-> m,
      oscillation_gate |-> g] :
        nt \in NeurotransmitterTag, r \in ReceptorTag, m \in ModifierTag,
        g \in {None} \cup {Some(b) : b \in OscillationBandTag}}

TagsInit == args \in TagInputs /\ ret = None

EncodeThenParse ==
    /\ ret = None
    /\ \E e \in {encode_neurosymbolic_triplet(args.neurotransmitter, args.receptor,
                     args.modifier, args.oscillation_gate)} :
          ret' = Some([encoded |-> e, parsed |-> parse_neurosymbolic_triplet(e)])
    /\ UNCHANGED args

InitTags == TagsInit /\ EngineIdle /\ ReceptorIdle /\ BridgeIdle /\ SchedulerIdle
NextTags == EncodeThenParse /\ UNCHANGED engineVars /\ UNCHANGED receptorVars /\ UNCHANGED bridgeVars /\ UNCHANGED schedulerVars
SpecTags == InitTags /\ [][NextTags]_vars

\* a parsed field stands for the tag when it is the tag's name or its value
Denotes(field, tag) == field = tag.name \/ field = tag.value

\* C5: for every NeurotransmitterTag, ReceptorTag, ModifierTag and optional
\* OscillationBandTag, parsing the encoded triplet gives back (nt, r, m, gate).
Claim_C5 ==
    ret # None =>
        /\ ret[1].parsed.error = "none"
        /\ Denotes(ret[1].parsed.neurotransmitter, args.neurotransmitter)
        /\ Denotes(ret[1].parsed.receptor, args.receptor)
        /\ Denotes(ret[1].parsed.modifier, args.modifier)
        /\ IF args.oscillation_gate = None THEN ret[1].parsed.oscillation_gate = None
           ELSE /\ ret[1].parsed.oscillation_gate # None
                /\ Denotes(ret[1].parsed.oscillation_gate[1], args.oscillation_gate[1])

(***************************************************************************)
(* A ReceptorState object driven through its mutators                      *)
(***************************************************************************)
MaxCalls == 4
ReceptorDtValues == {1000, 2500}
DensityDeltaValues == {-4000, 7000}
SensitivityDeltaValues == {-3000}
SaturationValues == {8000}

set_functional_state_always_reset(self, new_state) ==
    [self EXCEPT !.chi = new_state, !.time_in_state = 0]

set_functional_state(self, new_state) ==
    IF new_state # self.chi
    THEN [self EXCEPT !.chi = new_state, !.time_in_state = 0]
    ELSE self

increment_time_in_state(self, dt_) == [self EXCEPT !.time_in_state = @ + dt_]

\* ReceptorState.update_density(delta_rho): rho + delta_rho clamped to [0,1]
update_density(self, delta_rho) ==
    [self EXCEPT !.rho = Max(0, Min(SCALE, self.rho + delta_rho))]

\* ReceptorState.update_sensitivity(delta_sigma): sigma + delta_sigma clamped to [0,1]
update_sensitivity(self, delta_sigma) ==
    [self EXCEPT !.sigma = Max(0, Min(SCALE, self.sigma + delta_sigma))]

\* ReceptorState.update_exposure_trace(saturation, dt, tau)
tau_default == 10 * SCALE
update_exposure_trace(self, saturation, dt_, tau) ==
    [self EXCEPT !.exposure_trace = Mul(@, ExpNeg(Div(dt_, tau))) + Mul(saturation, dt_)]

\* args records the last call: its name, its argument, and chi and
\* time_in_state as they were when it was made
LastCall(op, new_state, calls) ==
    [op |-> op, new_state |-> new_state, old_chi |-> receptor.chi,
     old_time |-> receptor.time_in_state, calls |-> calls]

ReceptorInit ==
    /\ \E chi \in ReceptorFunctionalState :
          receptor = ReceptorState(<<"DA", "D1">>, SCALE, SCALE, R_lambda_loc_default,
                                   SCALE, chi, 0, 0)
    /\ sinceChange = 0
    /\ args = [op |-> "init", new_state |-> "active", old_chi |-> "active",
               old_time |-> 0, calls |-> 0]
    /\ ret = None

SetFunctionalState ==
    /\ args.calls < MaxCalls
    /\ \E new_state \in ReceptorFunctionalState :
         /\ receptor' = set_functional_state(receptor, new_state)
         /\ sinceChange' = IF receptor'.chi # receptor.chi THEN 0 ELSE sinceChange
         /\ args' = LastCall("set_functional_state", new_state, args.calls + 1)
    /\ UNCHANGED ret

IncrementTimeInState ==
    /\ args.calls < MaxCalls
    /\ \E h \in ReceptorDtValues :
         /\ receptor' = increment_time_in_state(receptor, h)
         /\ sinceChange' = sinceChange + h
         /\ args' = LastCall("increment_time_in_state", receptor.chi, args.calls + 1)
    /\ UNCHANGED ret

\* the remaining mutators leave chi and time_in_state alone
UpdateDensity ==
    /\ args.calls < MaxCalls
    /\ \E delta_rho \in DensityDeltaValues :
         receptor' = update_density(receptor, delta_rho)
    /\ args' = LastCall("update_density", receptor.chi, args.calls + 1)
    /\ UNCHANGED <<sinceChange, ret>>

UpdateSensitivity ==
    /\ args.calls < MaxCalls
    /\ \E delta_sigma \in SensitivityDeltaValues :
         receptor' = update_sensitivity(receptor, delta_sigma)
    /\ args' = LastCall("update_sensitivity", receptor.chi, args.calls + 1)
    /\ UNCHANGED <<sinceChange, ret>>

UpdateExposureTrace ==
    /\ args.calls < MaxCalls
    /\ \E saturation \in SaturationValues, h \in {1000} :
         receptor' = update_exposure_trace(receptor, saturation, h, tau_default)
    /\ args' = LastCall("update_exposure_trace", receptor.chi, args.calls + 1)
    /\ UNCHANGED <<sinceChange, ret>>

ReceptorCall ==
    \/ SetFunctionalState
    \/ IncrementTimeInState
    \/ UpdateDensity
    \/ UpdateSensitivity
    \/ UpdateExposureTrace

InitReceptor == ReceptorInit /\ EngineIdle /\ BridgeIdle /\ SchedulerIdle
NextReceptor == ReceptorCall /\ UNCHANGED engineVars /\ UNCHANGED bridgeVars /\ UNCHANGED schedulerVars
SpecReceptor == InitReceptor /\ [][NextReceptor]_vars

\* C6: set_functional_state(s) sets chi to s and time_in_state to 0 when s differs
\* from chi and changes neither when s equals chi, so that time_in_state is always
\* the sum of the dt increments made since the last call that changed chi.
Thm_C6 ==
    /\ args.op = "set_functional_state" =>
          IF args.new_state # args.old_chi
          THEN receptor.chi = args.new_state /\ receptor.time_in_state = 0
          ELSE receptor.chi = args.old_chi /\ receptor.time_in_state = args.old_time
    /\ receptor.time_in_state = sinceChange

\* a call naming the current state was made on an object with time accumulated
Witness_C6 ==
    /\ args.op = "set_functional_state"
    /\ args.new_state = args.old_chi
    /\ args.old_time > 0
    /\ receptor.time_in_state = args.old_time

(***************************************************************************)
(* The decay scenario: an engine with dt = 0.01 and the one neurotransmitter*)
(* DA at C_tonic = 0.6, C_phasic = 0, F = 0, eta_u = 1, default constants,  *)
(* stepped once with no modulation.  The increments are the draws of       *)
(* random.gauss(0, sqrt(dt)), here out to three standard deviations.       *)
(***************************************************************************)
DecayDWValues == {50 * k : k \in -60..60}
DecayPhasicDWValues == {-1000, 0, 1000}
DecayState == NeurotransmitterState(6000, 0, 0, SCALE)

InitDecay ==
    /\ neurotransmitters = << <<<<"DA">>, DecayState>> >>
    /\ configs = << <<<<"DA">>, <<>> >> >>
    /\ receptors = <<>>
    /\ oscillations = None
    /\ current_time = DoubleZero
    /\ dt = 100
    /\ nsteps = 0
    /\ ncalls = 0
    /\ result = NoResult
    /\ PureIdle /\ ReceptorIdle /\ BridgeIdle /\ SchedulerIdle

NextDecay ==
    /\ nsteps = 0
    /\ ncalls' = ncalls + 1
    /\ \E w \in DecayDWValues, v \in DecayPhasicDWValues : step(Some(<<>>), << <<w, v>> >>)
    /\ UNCHANGED pureVars /\ UNCHANGED receptorVars /\ UNCHANGED bridgeVars /\ UNCHANGED schedulerVars

SpecDecay == InitDecay /\ [][NextDecay]_vars

\* C11: from DA at C_tonic = 0.6 with dt = 0.01, one step({}) yields
\* 0 < C_tonic < 0.6 for every Brownian increment the integrator can draw.
Claim_C11 ==
    (nsteps = 1 /\ result.op = "step" /\ result.error = "none") =>
        LET C_tonic == DictGet(neurotransmitters, <<"DA">>).C_tonic
        IN 0 < C_tonic /\ C_tonic < 6000

(***************************************************************************)
(* _update_neurotransmitter on one state, run twice with the same          *)
(* increments: with the signals given for the neurotransmitter and with no *)
(* signals for it.  kinetics/release_drives.py holds the thresholded       *)
(* drives.                                                                 *)
(***************************************************************************)
novelty_threshold_default == 3000
effort_threshold_default == 2000
compute_novelty_drive(stimulus_novelty, sensitivity, threshold) ==
    Mul(sensitivity, Max(0, stimulus_novelty - threshold))
compute_effort_drive(task_demand, willingness, threshold) ==
    Mul(willingness, Max(0, task_demand - threshold))

SignalInputs ==
    {[fn |-> "_update_neurotransmitter", state |-> st,
      signals |-> << <<"novelty", n>>, <<"rpe", 0>>, <<"effort", e>> >>,
      osc |-> o, dt |-> h, dW_tonic |-> w, dW_phasic |-> -w] :
        st \in {DefaultNeurotransmitterState, NeurotransmitterState(5000, 2000, 9000, 5000)},
        n \in {0, 1500, 3000, 9000}, e \in {0, 1000, 2000, 6000},
        o \in {None} \cup {Some(x) : x \in OscillationChoices},
        h \in {100, 10000}, w \in {-1000, 0, 1000}}

InitSignals == args \in SignalInputs /\ ret = None /\ EngineIdle /\ ReceptorIdle /\ BridgeIdle /\ SchedulerIdle

UpdateWithAndWithoutSignals ==
    /\ ret = None
    /\ ret' = Some([with_signals |->
                        UpdatedNeurotransmitter(args.state, <<>>, args.signals, args.osc,
                                                args.dt, args.dW_tonic, args.dW_phasic),
                    without_signals |->
                        UpdatedNeurotransmitter(args.state, <<>>, <<>>, args.osc,
                                                args.dt, args.dW_tonic, args.dW_phasic)])
    /\ UNCHANGED args

NextSignals == UpdateWithAndWithoutSignals /\ UNCHANGED engineVars /\ UNCHANGED receptorVars /\ UNCHANGED bridgeVars /\ UNCHANGED schedulerVars
SpecSignals == InitSignals /\ [][NextSignals]_vars

\* C12: signals with novelty <= 0.3, effort <= 0.2 and rpe = 0 inject no burst:
\* both drives are 0, so the phasic component is integrated with the drift of a
\* step without signals and, the increments being the same, ends at the same value.
Claim_C12 ==
    (/\ ret # None
     /\ compute_novelty_drive(DictGet(args.signals, "novelty"), SCALE,
                              novelty_threshold_default) = 0
     /\ compute_effort_drive(DictGet(args.signals, "effort"), SCALE,
                             effort_threshold_default) = 0
     /\ DictGet(args.signals, "rpe") = 0)
    => ret[1].with_signals = ret[1].without_signals

(***************************************************************************)
(* NeurochemicalRegistry on its own: registrations and lookups             *)
(***************************************************************************)
\* a lookup returns the stored value or raises KeyError
Found(value) == [error |-> "none", value |-> Some(value)]
NotFound == [error |-> "KeyError", value |-> None]

get_neurotransmitter(nts, name) ==
    IF ~DictHas(nts, name) THEN NotFound ELSE Found(DictGet(nts, name))

get_receptor(recs, receptor_id) ==
    IF ~DictHas(recs, receptor_id) THEN NotFound ELSE Found(DictGet(recs, receptor_id))

\* variant: a missing config reads as the empty dict
get_config_or_empty(cfgs, name) ==
    IF ~DictHas(cfgs, name) THEN Found(<<>>) ELSE Found(DictGet(cfgs, name))

get_config(cfgs, name) ==
    IF ~DictHas(cfgs, name) THEN NotFound ELSE Found(DictGet(cfgs, name))

RegistryNames == {<<"DA">>, <<"DA", "D1">>}
RegistryNTStates == {DefaultNeurotransmitterState, DecayState}
RegistryConfigs == {None, Some(<<>>), Some(<< <<"K_d", 2500>> >>)}
registryVars == <<neurotransmitters, receptors, configs, oscillations>>

InitRegistry == EngineIdle /\ PureIdle /\ ReceptorIdle /\ BridgeIdle /\ SchedulerIdle

RegistryRegisterNeurotransmitter ==
    \E name \in RegistryNames, state \in RegistryNTStates, config \in RegistryConfigs :
        LET reg == register_neurotransmitter(neurotransmitters, configs, name, state, config)
        IN /\ neurotransmitters' = reg.neurotransmitters
           /\ configs' = reg.configs
           /\ result' = [NoResult EXCEPT !.op = "register_neurotransmitter", !.key = name]
           /\ UNCHANGED <<receptors, oscillations>>

RegistryRegisterReceptor ==
    \E receptor_id \in RegistryNames :
        /\ receptors' = register_receptor(receptors, receptor_id,
                                          DefaultReceptorState(receptor_id))
        /\ result' = [NoResult EXCEPT !.op = "register_receptor", !.key = receptor_id]
        /\ UNCHANGED <<neurotransmitters, configs, oscillations>>

RegistrySetOscillations ==
    \E osc_state \in OscillationChoices :
        /\ oscillations' = Some(osc_state)
        /\ result' = [NoResult EXCEPT !.op = "set_oscillations"]
        /\ UNCHANGED <<neurotransmitters, receptors, configs>>

\* a lookup writes nothing: the outcome is all it leaves behind
Lookup(op, key, r) ==
    /\ result' = [NoResult EXCEPT !.op = op, !.key = key, !.error = r.error,
                                  !.value = r.value]
    /\ UNCHANGED registryVars

RegistryGetNeurotransmitter ==
    \E name \in RegistryNames :
        Lookup("get_neurotransmitter", name, get_neurotransmitter(neurotransmitters, name))

RegistryGetReceptor ==
    \E receptor_id \in RegistryNames :
        Lookup("get_receptor", receptor_id, get_receptor(receptors, receptor_id))

RegistryGetConfig ==
    \E name \in RegistryNames : Lookup("get_config", name, get_config(configs, name))

NextRegistry ==
    /\ \/ RegistryRegisterNeurotransmitter
       \/ RegistryRegisterReceptor
       \/ RegistrySetOscillations
       \/ RegistryGetNeurotransmitter
       \/ RegistryGetReceptor
       \/ RegistryGetConfig
    /\ UNCHANGED <<current_time, dt, nsteps, ncalls>>
    /\ UNCHANGED pureVars /\ UNCHANGED receptorVars /\ UNCHANGED bridgeVars /\ UNCHANGED schedulerVars

SpecRegistry == InitRegistry /\ [][NextRegistry]_vars

\* the dict a lookup reads
LookupDict(op) ==
    IF op = "get_neurotransmitter" THEN neurotransmitters
    ELSE IF op = "get_receptor" THEN receptors ELSE configs

\* C13: get_neurotransmitter, get_receptor and get_config called with a name that
\* was never registered fail with KeyError, return nothing, and leave states,
\* configs, oscillation state and iteration order as they were.
Thm_C13 ==
    [][(/\ result'.op \in {"get_neurotransmitter", "get_receptor", "get_config"}
        /\ ~DictHas(LookupDict(result'.op), result'.key))
       => (/\ result'.error = "KeyError"
           /\ result'.value = None
           /\ UNCHANGED registryVars)]_vars

\* get_config failed for a name that is registered as a neurotransmitter and as
\* a receptor, but has no config
Witness_C13 ==
    /\ result.op = "get_config" /\ result.error = "KeyError"
    /\ DictHas(neurotransmitters, result.key)
    /\ DictHas(receptors, result.key)
    /\ ~DictHas(configs, result.key)
    /\ Len(configs) > 0

(***************************************************************************)
(* reward/evaluation/collectors.py: the two paired-list statistics.        *)
(* A call returns a float (Some), returns None, or raises ValueError.      *)
(***************************************************************************)
MaxListLen == 2
ScoreValues == {-5000, 0, 5000}

SeqsUpTo(S, n) == UNION {SeqsOfLen(S, k) : k \in 0..n}

RECURSIVE SumSeq(_)
SumSeq(q) == IF q = <<>> THEN 0 ELSE Head(q) + SumSeq(Tail(q))

Returned(value) == [error |-> "none", value |-> value]
Raised(error) == [error |-> error, value |-> None]

self_correction_delta(pre_scores, post_scores) ==
    IF pre_scores = <<>> \/ post_scores = <<>> THEN Returned(None)
    ELSE IF Len(pre_scores) # Len(post_scores) THEN Raised("ValueError")
    ELSE LET deltas == [i \in 1..Len(pre_scores) |-> post_scores[i] - pre_scores[i]]
         IN Returned(Some(RDiv(SumSeq(deltas), Len(deltas))))

\* round(mean, 6): the value returned is a whole number of millionths
latency_impact(baseline_latencies, gated_latencies) ==
    IF baseline_latencies = <<>> \/ gated_latencies = <<>> THEN Returned(None)
    ELSE IF Len(baseline_latencies) # Len(gated_latencies) THEN Raised("ValueError")
    ELSE LET deltas == [i \in 1..Len(baseline_latencies) |->
                           gated_latencies[i] - baseline_latencies[i]]
         IN Returned(Some(RDiv(SumSeq(deltas) * 100, Len(deltas))))

CollectorInputs ==
    {[fn |-> f, first |-> a, second |-> b] :
        f \in {"self_correction_delta", "latency_impact"},
        a \in SeqsUpTo(ScoreValues, MaxListLen), b \in SeqsUpTo(ScoreValues, MaxListLen)}

InitCollectors == args \in CollectorInputs /\ ret = None /\ EngineIdle /\ ReceptorIdle /\ BridgeIdle /\ SchedulerIdle

SelfCorrectionDelta ==
    /\ ret = None /\ args.fn = "self_correction_delta"
    /\ ret' = Some(self_correction_delta(args.first, args.second))
    /\ UNCHANGED args

LatencyImpact ==
    /\ ret = None /\ args.fn = "latency_impact"
    /\ ret' = Some(latency_impact(args.first, args.second))
    /\ UNCHANGED args

NextCollectors ==
    /\ SelfCorrectionDelta \/ LatencyImpact
    /\ UNCHANGED engineVars /\ UNCHANGED receptorVars /\ UNCHANGED bridgeVars /\ UNCHANGED schedulerVars

SpecCollectors == InitCollectors /\ [][NextCollectors]_vars

\* C14: self_correction_delta and latency_impact raise ValueError whenever their
\* two lists differ in length, one of them being empty included, and return a
\* value only for lists of equal length.
Claim_C14 ==
    ret # None =>
        /\ Len(args.first) # Len(args.second) => ret[1].error = "ValueError"
        /\ ret[1].error = "none" => Len(args.first) = Len(args.second)

(***************************************************************************)
(* adaptive_step_euler_maruyama called twice with the same arguments, the  *)
(* caller supplying dW.  ret lists what the calls returned.                *)
(***************************************************************************)
InitAdaptiveTwice ==
    /\ args \in {a \in AdaptiveInputs : a.dW # None}
    /\ ret = <<>>
    /\ EngineIdle /\ ReceptorIdle /\ BridgeIdle /\ SchedulerIdle

AdaptiveCallWithDW ==
    /\ Len(ret) < 2
    /\ \E k \in 1..MaxAttempts :
         \E draws \in SeqsOfLen(AdaptiveDWValues, k - 1) :
            \E r \in {adaptive_step_euler_maruyama(args.X, args.drift, args.diffusion,
                         args.dt, args.tolerance, args.min_dt, args.max_dt,
                         args.dW \o draws)} :
               /\ r # None
               /\ ret' = Append(ret, r[1])
    /\ UNCHANGED args

NextAdaptiveTwice == AdaptiveCallWithDW /\ UNCHANGED engineVars /\ UNCHANGED receptorVars /\ UNCHANGED bridgeVars /\ UNCHANGED schedulerVars
SpecAdaptiveTwice == InitAdaptiveTwice /\ [][NextAdaptiveTwice]_vars

\* C15: with a caller-supplied dW two calls of adaptive_step_euler_maruyama with
\* identical arguments return the identical (next_state, accepted_dt) pair, also
\* when the first attempt is rejected and the step is retried.
Claim_C15 == Len(ret) = 2 => ret[1] = ret[2]

(***************************************************************************)
(* Seeding.  NeurochemicalEngine(seed=s) calls random.seed(s) on the       *)
(* module-level generator, and euler_maruyama_step draws from that same    *)
(* generator.  The generator is the pair of its last seed and the number   *)
(* of gauss draws made since; what it returns is fixed by the two.         *)
(***************************************************************************)
MaxOthers == 2
EngineSeeds == {1, 2}
OtherSeeds == {1, 3}

\* random.gauss(0.0, 1.0) after random.seed(seed), seed = 1, 2, 3: the first
\* deviates the generator returns, in the order it returns them
StandardDeviates ==
    <<<<12882, 14494, 663, -7645, -10922, 313, -10221, -14368, 1993, 1334, 5465, -9140>>,
      <<23382, -6629, 3949, 1465, 8351, -14021, -4148, -7515, -10746, -8438, -5125, -2868>>,
      <<947, 12500, -9314, 9924, -2592, -2615, 18997, 1575, -429, 7295, 11269, -308>>>>

\* the standard normal deviate the generator returns at its state
StandardDeviate(seed, pos) == StandardDeviates[seed][pos + 1]

\* random.gauss(0.0, math.sqrt(dt))
GaussDraw(rng, dt_) == Mul(Sqrt(dt_), StandardDeviate(rng.seed, rng.pos))

Seeded(seed) == [seed |-> seed, pos |-> 0]
Advanced(rng, n) == [rng EXCEPT !.pos = @ + n]

\* the states an engine seeded with seed passes through in k steps when nothing
\* else touches the generator
RECURSIVE IsolatedTrajectory(_, _, _, _)
IsolatedTrajectory(state, rng, dt_, k) ==
    IF k = 0 THEN <<>>
    ELSE LET next == UpdatedNeurotransmitter(state, <<>>, <<>>, None, dt_,
                         GaussDraw(rng, dt_), GaussDraw(Advanced(rng, 1), dt_))
         IN <<next>> \o IsolatedTrajectory(next, Advanced(rng, 2), dt_, k - 1)

\* engine = NeurochemicalEngine(dt=1.0, seed=s); engine.add_neurotransmitter("DA")
InitSeeded ==
    /\ neurotransmitters = << <<<<"DA">>, DefaultNeurotransmitterState>> >>
    /\ configs = << <<<<"DA">>, <<>> >> >>
    /\ receptors = <<>>
    /\ oscillations = None
    /\ current_time = DoubleZero
    /\ dt = SCALE
    /\ nsteps = 0
    /\ ncalls = 0
    /\ result = NoResult
    /\ \E seed \in EngineSeeds : args = [seed |-> seed, rng |-> Seeded(seed), others |-> 0]
    /\ ret = <<>>
    /\ ReceptorIdle /\ BridgeIdle /\ SchedulerIdle

\* engine.step(): the tonic and the phasic increment are the next two draws
SeededStep ==
    /\ nsteps < MaxSteps
    /\ ncalls' = ncalls + 1
    /\ step(None, << <<GaussDraw(args.rng, dt), GaussDraw(Advanced(args.rng, 1), dt)>> >>)
    /\ args' = [args EXCEPT !.rng = Advanced(@, 2)]
    /\ ret' = Append(ret, DictGet(neurotransmitters', <<"DA">>))

\* NeurochemicalEngine(seed=s2) constructed elsewhere
OtherEngineConstructed ==
    /\ args.others < MaxOthers
    /\ \E seed \in OtherSeeds :
          args' = [args EXCEPT !.rng = Seeded(seed), !.others = @ + 1]
    /\ UNCHANGED <<engineVars, ret>>

\* one random.gauss draw made elsewhere, by another engine's step or any other caller
OtherDraw ==
    /\ args.others < MaxOthers
    /\ args' = [args EXCEPT !.rng = Advanced(@, 1), !.others = @ + 1]
    /\ UNCHANGED <<engineVars, ret>>

NextSeeded ==
    /\ SeededStep \/ OtherEngineConstructed \/ OtherDraw
    /\ UNCHANGED receptorVars /\ UNCHANGED bridgeVars /\ UNCHANGED schedulerVars

SpecSeeded == InitSeeded /\ [][NextSeeded]_vars

\* C16: an engine constructed with seed s and stepped a fixed number of times
\* passes through the same neurotransmitter states whatever other engines are
\* constructed and whatever other draws are made between its calls.
Claim_C16 ==
    ret = IsolatedTrajectory(DefaultNeurotransmitterState, Seeded(args.seed), dt, Len(ret))

(***************************************************************************)
(* A NeurotransmitterState object, held under the name DA, driven through  *)
(* its four mutators                                                       *)
(***************************************************************************)
MaxMutations == 3
DeltaValues == {-20000, 3000}

update_concentration(self, delta_C, is_phasic) ==
    IF is_phasic
    THEN [self EXCEPT !.C_phasic = Max(0, self.C_phasic + delta_C)]
    ELSE [self EXCEPT !.C_tonic = Max(0, self.C_tonic + delta_C)]

set_concentration(self, C_total) ==
    [self EXCEPT !.C_tonic = Max(0, C_total), !.C_phasic = 0]

\* variant: the fatigue update is not clamped
update_fatigue_unclamped(self, delta_F) == [self EXCEPT !.F = self.F + delta_F]

update_fatigue(self, delta_F) ==
    [self EXCEPT !.F = Max(0, Min(SCALE, self.F + delta_F))]

update_transporter_efficiency(self, delta_eta) ==
    [self EXCEPT !.eta_u = Max(0, Min(SCALE, self.eta_u + delta_eta))]

TheState == DictGet(neurotransmitters, <<"DA">>)

\* constructed with field values inside and outside their domains
InitMutators ==
    /\ \E C_tonic \in {-5000, 15000}, C_phasic \in {-1000, 2000},
          F \in {-1000, 20000}, eta_u \in {-1000, 5000} :
          neurotransmitters =
              << <<<<"DA">>, NeurotransmitterState(C_tonic, C_phasic, F, eta_u)>> >>
    /\ configs = <<>> /\ receptors = <<>> /\ oscillations = None
    /\ current_time = DoubleZero /\ dt = 0 /\ nsteps = 0 /\ ncalls = 0 /\ result = NoResult
    /\ args = [op |-> "__init__", calls |-> 0]
    /\ ret = None
    /\ ReceptorIdle /\ BridgeIdle /\ SchedulerIdle

Mutated(op, new_state) ==
    /\ args.calls < MaxMutations
    /\ neurotransmitters' = DictPut(neurotransmitters, <<"DA">>, new_state)
    /\ args' = [op |-> op, calls |-> args.calls + 1]
    /\ UNCHANGED <<receptors, configs, oscillations, current_time, dt, nsteps, ncalls, result, ret>>

UpdateConcentration ==
    \E delta_C \in DeltaValues, is_phasic \in BOOLEAN :
        Mutated("update_concentration", update_concentration(TheState, delta_C, is_phasic))

SetConcentration ==
    \E C_total \in DeltaValues :
        Mutated("set_concentration", set_concentration(TheState, C_total))

UpdateFatigue ==
    \E delta_F \in DeltaValues : Mutated("update_fatigue", update_fatigue(TheState, delta_F))

UpdateTransporterEfficiency ==
    \E delta_eta \in DeltaValues :
        Mutated("update_transporter_efficiency",
                update_transporter_efficiency(TheState, delta_eta))

NextMutators ==
    /\ \/ UpdateConcentration
       \/ SetConcentration
       \/ UpdateFatigue
       \/ UpdateTransporterEfficiency
    /\ UNCHANGED receptorVars /\ UNCHANGED bridgeVars /\ UNCHANGED schedulerVars

SpecMutators == InitMutators /\ [][NextMutators]_vars

\* C17: after construction with any field values and after any sequence of the
\* four mutators with any deltas, C_tonic >= 0, C_phasic >= 0, 0 <= F <= 1 and
\* 0 <= eta_u <= 1.
Thm_C17 ==
    /\ TheState.C_tonic >= 0
    /\ TheState.C_phasic >= 0
    /\ InUnit(TheState.F)
    /\ InUnit(TheState.eta_u)

\* a fatigue update that had to be clamped at 1, on an object whose tonic
\* concentration an earlier call clamped at 0
Witness_C17 ==
    /\ args.op = "update_fatigue" /\ args.calls = MaxMutations
    /\ TheState.F = SCALE
    /\ TheState.C_tonic = 0
    /\ TheState.eta_u = 0

(***************************************************************************)
(* An engine set up for the readout: the neurotransmitter OXTR added with  *)
(* a config, the receptor OXTR registered with the registry under the same *)
(* name, and an oscillation state set.  K_d is a configured constant.      *)
(***************************************************************************)
ReadoutNTStates ==
    {NeurotransmitterState(0, 0, 0, SCALE), NeurotransmitterState(0, 2000, 0, SCALE),
     NeurotransmitterState(SCALE, 0, 5000, 5000), DefaultNeurotransmitterState}
ReadoutK_dValues == {0, 2500, 5000}

InitReadout ==
    /\ \E state \in ReadoutNTStates, K_d \in ReadoutK_dValues :
          /\ neurotransmitters = << <<<<"OXTR">>, state>> >>
          /\ configs = << <<<<"OXTR">>, << <<"K_d", K_d>> >> >> >>
    /\ receptors = << <<<<"OXTR">>, DefaultReceptorState(<<"OXTR">>)>> >>
    /\ \E oscillation_state \in OscillationChoices : oscillations = Some(oscillation_state)
    /\ current_time = DoubleZero
    /\ dt \in DtValues
    /\ nsteps = 0
    /\ ncalls = 0
    /\ result = NoResult
    /\ PureIdle /\ ReceptorIdle /\ BridgeIdle /\ SchedulerIdle

NextReadout ==
    /\ Step \/ GetNeurosymbolicReadout
    /\ UNCHANGED pureVars /\ UNCHANGED receptorVars /\ UNCHANGED bridgeVars /\ UNCHANGED schedulerVars

SpecReadout == InitReadout /\ [][NextReadout]_vars

\* C18: step and get_neurosymbolic_readout fail only for structural reasons
\* (not-found), never with a division by zero or another arithmetic error, for any
\* concentrations and constants, K_d = 0 with total concentration 0 included.
Claim_C18 ==
    result.op \in {"step", "get_neurosymbolic_readout"} =>
        result.error \in {"none", "KeyError"}

(***************************************************************************)
(* RewardSafetyBridge (reward/safety/reward_bridge.py).  A Python value is *)
(* None or Some(x).  A constraint hook is named by its policy; check gives *)
(* the dict the hook returns for a proposed state and a context.  The      *)
(* bridge object is [hooks, last_verified_state]; verdict records the last *)
(* call: its arguments, the last verified state held before it, and what   *)
(* it returned or raised.                                                  *)
(***************************************************************************)
MaxHooks == 2
BridgeStates == {Some("s1"), Some("s2")}
BridgeContexts == {"c1", "c2"}
RewardSignals == {-SCALE, SCALE}
HookPolicies == {"allow_all", "veto_s2", "rollback_c2", "silent_s2", "block_s2"}

HookAllows == << <<"allowed", TRUE>>, <<"action", "allow">> >>
HookDisallows(action, reason) == << <<"allowed", FALSE>>, <<"action", action>>, <<"reason", reason>> >>

\* ConstraintHookInterface.check(state, context) of a hook with the given policy.
check(hook, state, context) ==
    CASE hook = "allow_all" -> HookAllows
      [] hook = "veto_s2" ->
            IF state = Some("s2") THEN HookDisallows("veto", "s2 is forbidden") ELSE HookAllows
      [] hook = "rollback_c2" ->
            IF context = "c2" THEN HookDisallows("rollback", "c2 is forbidden") ELSE HookAllows
      [] hook = "silent_s2" ->
            IF state = Some("s2") THEN <<>> ELSE HookAllows
      [] hook = "block_s2" ->
            IF state = Some("s2") THEN << <<"allowed", FALSE>>, <<"action", "block">> >> ELSE HookAllows

RewardSafetyBridge(hooks) == [hooks |-> hooks, last_verified_state |-> None]

register_verified_state(self, state) == [self EXCEPT !.last_verified_state = state]

Outcome(allowed, final_state, action, reason) == [allowed |-> allowed, final_state |-> final_state, action |-> action, reason |-> reason]

\* called: the numbers of the hooks whose check was called, in call order
BridgeReturn(self, called, error, value) == [self |-> self, called |-> called, error |-> error, value |-> value]

\* The loop of evaluate from hook number i on.
RECURSIVE evaluate_from(_, _, _, _, _)
evaluate_from(self, i, proposed_state, reward_signal, context) ==
    IF i > Len(self.hooks)
    THEN BridgeReturn(register_verified_state(self, proposed_state),
                      [j \in 1..Len(self.hooks) |-> j], "none",
                      Some(Outcome(TRUE, proposed_state, "allow", None)))
    ELSE LET hook_result == check(self.hooks[i], proposed_state, context)
             allowed == DictGetDefault(hook_result, "allowed", FALSE)
             action == DictGetDefault(hook_result, "action", "veto")
             reason == IF DictHas(hook_result, "reason")
                       THEN Some(DictGet(hook_result, "reason")) ELSE None
         IN  IF ~allowed
             THEN IF action \notin {"veto", "rollback", "revert"}
                  THEN BridgeReturn(self, [j \in 1..i |-> j], "ValueError", None)
                  ELSE BridgeReturn(self, [j \in 1..i |-> j], "none",
                           Some(Outcome(FALSE, self.last_verified_state, action, reason)))
             ELSE evaluate_from(self, i + 1, proposed_state, reward_signal, context)

\* An evaluate that stores the proposed state before it asks the hooks.
evaluate_commit_first(self, proposed_state, reward_signal, context) ==
    evaluate_from(register_verified_state(self, proposed_state), 1, proposed_state, reward_signal, context)

\* An evaluate in which a positive reward signal bypasses the hooks.
evaluate_reward_overrides(self, proposed_state, reward_signal, context) ==
    IF reward_signal > 0
    THEN evaluate_from(self, Len(self.hooks) + 1, proposed_state, reward_signal, context)
    ELSE evaluate_from(self, 1, proposed_state, reward_signal, context)

\* An evaluate that asks every hook and answers with the last one that disallows.
evaluate_last_disallowing(self, proposed_state, reward_signal, context) ==
    LET n == Len(self.hooks)
        disallows(i) == ~DictGetDefault(check(self.hooks[i], proposed_state, context), "allowed", FALSE)
    IN IF \A i \in 1..n : ~disallows(i)
       THEN evaluate_from(self, 1, proposed_state, reward_signal, context)
       ELSE LET last == CHOOSE i \in 1..n : disallows(i) /\ \A j \in (i + 1)..n : ~disallows(j)
                r == evaluate_from([self EXCEPT !.hooks = <<self.hooks[last]>>], 1, proposed_state, reward_signal, context)
            IN BridgeReturn(self, [j \in 1..n |-> j], r.error, r.value)

evaluate(self, proposed_state, reward_signal, context) ==
    evaluate_from(self, 1, proposed_state, reward_signal, context)

BridgeCall(op, proposed_state, reward_signal, context, before, called, error, value) == [op |-> op, proposed_state |-> proposed_state, reward_signal |-> reward_signal, context |-> context, before |-> before, called |-> called, error |-> error, value |-> value]

InitBridge ==
    /\ \E hooks \in SeqsUpTo(HookPolicies, MaxHooks) : bridge = RewardSafetyBridge(hooks)
    /\ verdict = BridgeCall("none", None, 0, "c1", None, <<>>, "none", None)
    /\ EngineIdle /\ PureIdle /\ ReceptorIdle /\ SchedulerIdle

RegisterVerifiedState ==
    \E state \in BridgeStates :
        /\ bridge' = register_verified_state(bridge, state)
        /\ verdict' = BridgeCall("register_verified_state", state, 0, "c1",
                                 bridge.last_verified_state, <<>>, "none", None)

Evaluate ==
    \E proposed_state \in BridgeStates, reward_signal \in RewardSignals, context \in BridgeContexts :
        \E r \in {evaluate(bridge, proposed_state, reward_signal, context)} :
            /\ bridge' = r.self
            /\ verdict' = BridgeCall("evaluate", proposed_state, reward_signal, context,
                                     bridge.last_verified_state, r.called, r.error, r.value)

NextBridge ==
    /\ RegisterVerifiedState \/ Evaluate
    /\ UNCHANGED engineVars /\ UNCHANGED pureVars /\ UNCHANGED receptorVars /\ UNCHANGED schedulerVars

SpecBridge == InitBridge /\ [][NextBridge]_vars

\* What the hooks of the bridge say about the arguments of the last call.
HookAllowed(i) == DictGetDefault(check(bridge.hooks[i], verdict.proposed_state, verdict.context), "allowed", FALSE)
EveryHookAllowed == \A i \in 1..Len(bridge.hooks) : HookAllowed(i)
FirstDisallowing == CHOOSE i \in 1..Len(bridge.hooks) : ~HookAllowed(i) /\ \A j \in 1..(i - 1) : HookAllowed(j)
FirstDisallowingAction == DictGetDefault(check(bridge.hooks[FirstDisallowing], verdict.proposed_state, verdict.context), "action", "veto")
ChangesOnlyWhenVerified ==
    bridge.last_verified_state # verdict.before =>
        \/ verdict.op = "register_verified_state"
        \/ verdict.op = "evaluate" /\ EveryHookAllowed
ReturnsDisallowed ==
    /\ verdict.error = "none"
    /\ verdict.value[1].allowed = FALSE
    /\ verdict.value[1].final_state = verdict.before

\* C19 as stated: the last verified state changes only through
\* register_verified_state or an evaluate call in which every hook allowed, and
\* every evaluate call in which some hook disallows returns allowed = false with
\* final_state equal to the last verified state held before the call and leaves
\* that state unchanged.
Claim_C19 ==
    /\ ChangesOnlyWhenVerified
    /\ (verdict.op = "evaluate" /\ ~EveryHookAllowed) =>
          /\ ReturnsDisallowed
          /\ bridge.last_verified_state = verdict.before

\* C19, amended: the last verified state changes only through
\* register_verified_state or an evaluate call in which every hook allowed; an
\* evaluate call in which some hook disallows leaves the last verified state
\* unchanged, and it returns allowed = false with final_state equal to the last
\* verified state held before the call when the action of the first disallowing
\* hook is veto, rollback or revert (veto when the hook names none), and raises
\* ValueError, returning nothing, when that action is anything else.
Thm_C19 ==
    /\ ChangesOnlyWhenVerified
    /\ (verdict.op = "evaluate" /\ ~EveryHookAllowed) =>
          /\ bridge.last_verified_state = verdict.before
          /\ IF FirstDisallowingAction \in {"veto", "rollback", "revert"}
             THEN ReturnsDisallowed
             ELSE verdict.error = "ValueError" /\ verdict.value = None

Witness_C19 ==
    /\ verdict.op = "evaluate"
    /\ ~EveryHookAllowed
    /\ verdict.error = "none"
    /\ verdict.before # None
    /\ verdict.proposed_state # verdict.before
    /\ verdict.value[1].final_state = verdict.before

\* C20: the outcome of evaluate does not depend on reward_signal: from the same
\* bridge state, with the same hooks, proposed_state and context, two calls with
\* different reward_signal values return the same allowed, final_state, action and
\* reason (or raise the same error) and leave the same last verified state.
Thm_C20 ==
    \A proposed_state \in BridgeStates, context \in BridgeContexts :
        \A r1 \in RewardSignals, r2 \in RewardSignals :
            evaluate(bridge, proposed_state, r1, context) = evaluate(bridge, proposed_state, r2, context)

Witness_C20 ==
    /\ verdict.op = "evaluate"
    /\ verdict.reward_signal > 0
    /\ verdict.error = "none"
    /\ verdict.value[1].allowed = FALSE
    /\ bridge.last_verified_state # verdict.proposed_state

(***************************************************************************)
(* The engine with one neurotransmitter, DA, driven step by step; args     *)
(* holds the arguments of the last step: the modulation signals and the    *)
(* Brownian increments drawn during it.                                    *)
(***************************************************************************)
DrivenNTStates ==
    {NeurotransmitterState(C_tonic, C_phasic, F, SCALE) :
        C_tonic \in {0, 6000}, C_phasic \in {0, 2000}, F \in {0, 9995, SCALE}}
DrivenDtValues == {5000, SCALE}
\* None, {}, {"DA": {}}, signals for DA, signals for a name that is not
\* registered, and both
DrivenSignals ==
    {None,
     Some(<<>>),
     Some(<< <<<<"DA">>, <<>> >> >>),
     Some(<< <<<<"DA">>, << <<"novelty", 9000>> >> >> >>),
     Some(<< <<<<"5HT">>, << <<"novelty", 9000>> >> >> >>),
     Some(<< <<<<"DA">>, << <<"rpe", 4000>> >> >>, <<<<"5HT">>, << <<"novelty", 9000>> >> >> >>)}

InitDriven ==
    /\ \E state \in DrivenNTStates : neurotransmitters = << <<<<"DA">>, state>> >>
    /\ configs = << <<<<"DA">>, <<>> >> >>
    /\ receptors = <<>>
    /\ oscillations = None
    /\ current_time = DoubleZero
    /\ dt \in DrivenDtValues
    /\ nsteps = 0
    /\ ncalls = 0
    /\ result = NoResult
    /\ PureIdle /\ ReceptorIdle /\ BridgeIdle /\ SchedulerIdle

DrivenStep ==
    /\ nsteps < MaxSteps
    /\ ncalls' = ncalls + 1
    /\ \E modulation_signals \in DrivenSignals, dWs \in DWChoices(1) :
          /\ step(modulation_signals, dWs)
          /\ args' = [modulation_signals |-> modulation_signals, dWs |-> dWs]
    /\ UNCHANGED ret

NextDriven == DrivenStep /\ UNCHANGED receptorVars /\ UNCHANGED bridgeVars /\ UNCHANGED schedulerVars

SpecDriven == InitDriven /\ [][NextDriven]_vars

\* the signal dict a step was called with, and what it holds for a name
SignalsOf(call) == IF call.modulation_signals = None THEN <<>> ELSE call.modulation_signals[1]
SignalsFor(call, name) == DictGetDefault(SignalsOf(call), name, <<>>)
DA == DictGet(neurotransmitters, <<"DA">>)

\* C23: each completed step sets every registered neurotransmitter's F to
\* min(1, F + 0.001 * dt), whatever the signals and the concentrations are; so F
\* never decreases from one step to the next, and once it is 1 it stays 1.
Thm_C23 ==
    [][(result'.op = "step" /\ result'.error = "none") =>
          \A i \in 1..Len(neurotransmitters) :
             LET F == neurotransmitters[i][2].F
                 F_after == neurotransmitters'[i][2].F
             IN /\ F_after = Min(SCALE, F + Mul(fatigue_rate, dt))
                /\ F_after >= F
                /\ F = SCALE => F_after = SCALE]_vars

\* a second step with signals for DA, fatigue clamped at 1, phasic release present
Witness_C23 ==
    /\ StepCompleted
    /\ nsteps = 2
    /\ DA.F = SCALE
    /\ Len(SignalsFor(args, <<"DA">>)) > 0
    /\ DA.C_phasic > 0

\* C24: a neurotransmitter with C_phasic = 0 and no signals for it in the step
\* (no key, or an empty mapping) has C_phasic = 0 after the step, for every
\* Brownian increment, over any number of steps.
Thm_C24 ==
    [][(/\ result'.op = "step" /\ result'.error = "none"
        /\ DA.C_phasic = 0
        /\ SignalsFor(args', <<"DA">>) = <<>>) => DA'.C_phasic = 0]_vars

\* two steps without signals for DA: the tonic component has moved, the phasic
\* component is still 0
Witness_C24 ==
    /\ StepCompleted
    /\ nsteps = 2
    /\ SignalsFor(args, <<"DA">>) = <<>>
    /\ DA.C_phasic = 0
    /\ DA.C_tonic \notin {0, 6000}
    /\ DA.F < SCALE

\* the signals of a call without the keys that name no registered neurotransmitter
RegisteredSignals(call) == SelectSeq(SignalsOf(call), LAMBDA kv : DictHas(neurotransmitters, kv[1]))

\* C29: signals keyed by a name that is not registered are ignored: the step
\* completes, registers no new neurotransmitter, and updates every registered
\* neurotransmitter as a step without those keys would with the same increments.
Thm_C29 ==
    [][(result'.op = "step" /\ RegisteredSignals(args') # SignalsOf(args')) =>
          /\ result'.error = "none"
          /\ neurotransmitter_names(neurotransmitters')
                = neurotransmitter_names(neurotransmitters)
          /\ neurotransmitters' =
                UpdateLoop(neurotransmitter_names(neurotransmitters), 1, neurotransmitters,
                           configs, RegisteredSignals(args'), oscillations, dt,
                           args'.dWs).neurotransmitters]_vars

\* a completed step called with signals for DA and for a name not registered
Witness_C29 ==
    /\ StepCompleted
    /\ args # <<>>
    /\ Len(SignalsOf(args)) = 2
    /\ Len(neurotransmitters) = 1
    /\ DA.C_phasic > 2000

(***************************************************************************)
(* The reflecting branch of euler_maruyama_step_bounded, statement by      *)
(* statement, in float arithmetic.  A float is [hi, lo] and stands for     *)
(* hi * 2^60 + lo, lo in the model's units: next to a multiple of 2^60 the  *)
(* neighbouring doubles are 256 apart, so a sum whose hi part is not 0      *)
(* rounds to that multiple whenever its lo part is below 128.  With hi = 0  *)
(* the values and the bounds are multiples of 1/4, which doubles subtract  *)
(* without rounding.  ret holds the position in the loop and the current   *)
(* value of X_next.                                                        *)
(***************************************************************************)
HalfSpacing == 128 * SCALE
Float(hi, lo) == IF hi # 0 /\ Abs(lo) < HalfSpacing THEN [hi |-> hi, lo |-> 0] ELSE [hi |-> hi, lo |-> lo]
FloatLess(a, b) == a.hi < b.hi \/ (a.hi = b.hi /\ a.lo < b.lo)
\* 2 * bound - X_next, rounded
ReflectedAt(bound, X_next) == Float(-X_next.hi, 2 * bound - X_next.lo)
OutOfBounds(X_next, lower_bound, upper_bound) == FloatLess(X_next, Float(0, lower_bound)) \/ FloatLess(Float(0, upper_bound), X_next)

ReflectBounds == {<<0, SCALE>>, <<-5000, 5000>>, <<2500, 5000>>}
ReflectValues == {Float(0, 2500 * k) : k \in -12..16} \cup {Float(hi, 0) : hi \in {-2, -1, 1, 2}}

InitReflect ==
    /\ \E X_next \in ReflectValues, b \in ReflectBounds :
          /\ args = [X_next |-> X_next, lower_bound |-> b[1], upper_bound |-> b[2], reflection |-> TRUE]
          /\ ret = [pc |-> "while", X_next |-> X_next]
    /\ EngineIdle /\ ReceptorIdle /\ BridgeIdle /\ SchedulerIdle

\* while X_next < lower_bound or X_next > upper_bound:
WhileTest ==
    /\ ret.pc = "while"
    /\ ret' = [ret EXCEPT !.pc = IF OutOfBounds(ret.X_next, args.lower_bound, args.upper_bound)
                                 THEN "if_lower" ELSE "return"]
    /\ UNCHANGED args

\* if X_next < lower_bound: X_next = 2 * lower_bound - X_next
IfLower ==
    /\ ret.pc = "if_lower"
    /\ ret' = [pc |-> "if_upper",
               X_next |-> IF FloatLess(ret.X_next, Float(0, args.lower_bound))
                          THEN ReflectedAt(args.lower_bound, ret.X_next) ELSE ret.X_next]
    /\ UNCHANGED args

\* if X_next > upper_bound: X_next = 2 * upper_bound - X_next
IfUpper ==
    /\ ret.pc = "if_upper"
    /\ ret' = [pc |-> "while",
               X_next |-> IF FloatLess(Float(0, args.upper_bound), ret.X_next)
                          THEN ReflectedAt(args.upper_bound, ret.X_next) ELSE ret.X_next]
    /\ UNCHANGED args

NextReflect ==
    /\ WhileTest \/ IfLower \/ IfUpper
    /\ UNCHANGED engineVars /\ UNCHANGED receptorVars /\ UNCHANGED bridgeVars /\ UNCHANGED schedulerVars

\* the loop keeps running as long as it has a statement to run
SpecReflect == InitReflect /\ [][NextReflect]_vars /\ WF_vars(NextReflect)

\* C25: in reflecting mode with lower_bound < upper_bound the call terminates for
\* every finite unconstrained step value and returns a value inside
\* [lower_bound, upper_bound]; a value already inside is returned unchanged.
Claim_C25 ==
    /\ <>(ret.pc = "return")
    /\ [](ret.pc = "return" =>
            /\ ~OutOfBounds(ret.X_next, args.lower_bound, args.upper_bound)
            /\ ~OutOfBounds(args.X_next, args.lower_bound, args.upper_bound) =>
                  ret.X_next = args.X_next)

(***************************************************************************)
(* integrate_sde, one loop iteration per step.  drift_fn and diffusion_fn  *)
(* are named functions of (X, t); the increment of each bounded step is    *)
(* chosen by the iteration and kept in ret.dWs.  The times t0, t_final and  *)
(* t are floats, and t += dt is a float sum; the argument dt is carried     *)
(* twice, as the float added to t (dt_float) and at the model's resolution *)
(* for the bounded step (dt).  The values stay where the reflecting loop of *)
(* the bounded step ends.                                                   *)
(***************************************************************************)
MaxPoints == 10
IntegrateDWValues == {-5000, 5000}
DriftFns == {"zero", "decay"}
DiffusionFns == {"zero", "constant"}
drift_fn(f, X, t) == IF f = "decay" THEN -X ELSE 0
diffusion_fn(f, X, t) == IF f = "constant" THEN 2500 ELSE 0

\* times that are multiples of 1/8, in quanta of 1/8: t0 in {0, 0.25}, t_final up
\* to 1 later, dt in {0.25, 0.5}
GridTimes ==
    {[t0 |-> Quanta(t0), t_final |-> Quanta(t0 + span), dt |-> 1250 * h, dt_float |-> Quanta(h)] :
        t0 \in {0, 2}, span \in {0, 4, 5, 8}, h \in {2, 4}}

\* dt = 0.1 from t0 = 0.0 to t_final = 0.3 and to t_final = 0.8, in quanta of 2^-55
TenthTimes ==
    {[t0 |-> DoubleZero, t_final |-> t_final, dt |-> 1000, dt_float |-> Double_0_1] :
        t_final \in {[high |-> 10066329, low |-> 644245094], [high |-> 26843545, low |-> 644245096]}}

\* dt = 1.0 from t0 = 1e16 to t_final = 1e16 + 2, in quanta of 1
LargeTimes ==
    {[t0 |-> [high |-> 9313225, low |-> 801177600], t_final |-> [high |-> 9313225, low |-> 801177602], dt |-> SCALE, dt_float |-> Quanta(1)]}

IntegrateCall(X0, mu, sigma, times, reflection) ==
    [X0 |-> X0, drift_fn |-> mu, diffusion_fn |-> sigma, t0 |-> times.t0,
     t_final |-> times.t_final, dt |-> times.dt, dt_float |-> times.dt_float,
     lower_bound |-> 0, upper_bound |-> SCALE, reflection |-> reflection]

IntegrateInputs ==
    {IntegrateCall(X0, mu, sigma, times, reflection) :
        X0 \in {5000, 15000}, mu \in DriftFns, sigma \in DiffusionFns,
        times \in GridTimes, reflection \in BOOLEAN}
    \cup {IntegrateCall(5000, "decay", sigma, times, FALSE) :
        sigma \in DiffusionFns, times \in TenthTimes \cup LargeTimes}

\* while t <= t_final
loop_condition(t, t_final) == DoubleLessEq(t, t_final)

InitIntegrate ==
    /\ args \in IntegrateInputs
    /\ ret = [pc |-> "while", t |-> args.t0, X |-> args.X0, time_points |-> <<>>,
              trajectory |-> <<>>, dWs |-> <<>>]
    /\ EngineIdle /\ ReceptorIdle /\ BridgeIdle /\ SchedulerIdle

\* one pass through the loop body: record t and X, leave at t >= t_final, else
\* take the bounded step and advance t
IntegrateIteration ==
    /\ ret.pc = "while"
    /\ Len(ret.time_points) < MaxPoints
    /\ loop_condition(ret.t, args.t_final)
    /\ IF DoubleLessEq(args.t_final, ret.t)
       THEN ret' = [ret EXCEPT !.pc = "return",
                               !.time_points = Append(@, ret.t),
                               !.trajectory = Append(@, ret.X)]
       ELSE \E dW \in IntegrateDWValues :
               ret' = [pc |-> "while",
                       t |-> DoubleAdd(ret.t, args.dt_float),
                       X |-> euler_maruyama_step_bounded(ret.X,
                                 drift_fn(args.drift_fn, ret.X, ret.t),
                                 diffusion_fn(args.diffusion_fn, ret.X, ret.t),
                                 args.dt, args.lower_bound, args.upper_bound, dW,
                                 args.reflection),
                       time_points |-> Append(ret.time_points, ret.t),
                       trajectory |-> Append(ret.trajectory, ret.X),
                       dWs |-> Append(ret.dWs, dW)]
    /\ UNCHANGED args

\* the loop condition fails: return time_points, trajectory
IntegrateReturn ==
    /\ ret.pc = "while"
    /\ ~loop_condition(ret.t, args.t_final)
    /\ ret' = [ret EXCEPT !.pc = "return"]
    /\ UNCHANGED args

NextIntegrate ==
    /\ IntegrateIteration \/ IntegrateReturn
    /\ UNCHANGED engineVars /\ UNCHANGED receptorVars /\ UNCHANGED bridgeVars /\ UNCHANGED schedulerVars

\* the loop keeps running as long as it has a statement to run
SpecIntegrate == InitIntegrate /\ [][NextIntegrate]_vars /\ WF_vars(NextIntegrate)

\* the float t0 + k * dt
GridTime(k) == DoubleAdd(args.t0, DoubleTimes(k, args.dt_float))
\* the number of the last grid point t0 + k * dt that is not beyond t_final
LastGridIndex == CHOOSE k \in 0..MaxPoints : DoubleLessEq(GridTime(k), args.t_final) /\ ~DoubleLessEq(GridTime(k + 1), args.t_final)

\* C26: for dt > 0 and t0 <= t_final, integrate_sde terminates and returns a time
\* list and a value list of equal length that start with t0 and X0; the times are
\* exactly t0 + k * dt for k = 0..K, K the largest k with t0 + k * dt <= t_final;
\* and each later value is the bounded step applied to the value before it.
Claim_C26 ==
    /\ <>(ret.pc = "return")
    /\ [](ret.pc = "return" =>
            /\ Len(ret.time_points) = Len(ret.trajectory)
            /\ Len(ret.time_points) = LastGridIndex + 1
            /\ ret.time_points[1] = args.t0
            /\ ret.trajectory[1] = args.X0
            /\ \A k \in 0..LastGridIndex : ret.time_points[k + 1] = GridTime(k)
            /\ \A k \in 1..LastGridIndex :
                  ret.trajectory[k + 1] =
                      euler_maruyama_step_bounded(ret.trajectory[k],
                          drift_fn(args.drift_fn, ret.trajectory[k], ret.time_points[k]),
                          diffusion_fn(args.diffusion_fn, ret.trajectory[k], ret.time_points[k]),
                          args.dt, args.lower_bound, args.upper_bound, ret.dWs[k],
                          args.reflection))

(***************************************************************************)
(* RewardSafetyBridge.evaluate: the order in which the hooks are asked     *)
(***************************************************************************)
FirstDisallowingReason ==
    LET hook_result == check(bridge.hooks[FirstDisallowing], verdict.proposed_state, verdict.context)
    IN IF DictHas(hook_result, "reason") THEN Some(DictGet(hook_result, "reason")) ELSE None
CalledUpTo(n) == verdict.called = [j \in 1..n |-> j]
AllowedOnlyAfterAll ==
    (verdict.error = "none" /\ verdict.value[1].allowed) <=>
        (EveryHookAllowed /\ CalledUpTo(Len(bridge.hooks)))
ReturnsFirstDisallowing ==
    /\ verdict.error = "none"
    /\ ~verdict.value[1].allowed
    /\ verdict.value[1].action = FirstDisallowingAction
    /\ verdict.value[1].reason = FirstDisallowingReason

\* C27 as stated: evaluate asks the hooks in construction order and stops at the
\* first that disallows; that hook's action and reason are the ones returned and
\* no later hook is asked; only when every hook was asked and allowed is the result
\* allowed = true with action 'allow'.
Claim_C27 ==
    verdict.op = "evaluate" =>
        /\ AllowedOnlyAfterAll
        /\ verdict.error = "none" /\ verdict.value[1].allowed => verdict.value[1].action = "allow"
        /\ ~EveryHookAllowed => CalledUpTo(FirstDisallowing) /\ ReturnsFirstDisallowing

\* C27, amended: evaluate asks the hooks in construction order and stops at the
\* first that disallows, so no later hook is asked; when that hook's action is
\* veto, rollback or revert (veto when it names none) its action and reason are
\* the ones returned, and otherwise the call raises ValueError and returns
\* nothing; only when every hook was asked and allowed is the result
\* allowed = true with action 'allow'.
Thm_C27 ==
    verdict.op = "evaluate" =>
        /\ AllowedOnlyAfterAll
        /\ verdict.error = "none" /\ verdict.value[1].allowed => verdict.value[1].action = "allow"
        /\ ~EveryHookAllowed =>
              /\ CalledUpTo(FirstDisallowing)
              /\ IF FirstDisallowingAction \in {"veto", "rollback", "revert"}
                 THEN ReturnsFirstDisallowing
                 ELSE verdict.error = "ValueError" /\ verdict.value = None

\* two hooks that both disallow the proposal, with different actions: the first
\* was asked, the second was not, and the first one's action came back
Witness_C27 ==
    /\ verdict.op = "evaluate"
    /\ Len(bridge.hooks) = 2
    /\ \A i \in 1..2 : ~HookAllowed(i)
    /\ verdict.called = <<1>>
    /\ verdict.error = "none"
    /\ verdict.value[1].action = "rollback"
    /\ check(bridge.hooks[2], verdict.proposed_state, verdict.context) # check(bridge.hooks[1], verdict.proposed_state, verdict.context)

(***************************************************************************)
(* EventScheduler (core/scheduler.py).  An event is <<time, action>>.  An  *)
(* action is [id, adds, origin]: id numbers the add_event calls in call    *)
(* order; an action with adds = Some(t) calls add_event(t, ...) with a     *)
(* plain action when it runs; origin is the id of the action that added    *)
(* the event, 0 for an event added by the caller.  triggered records the   *)
(* last call: its argument, the events pending before it, and the events   *)
(* whose actions trigger_events ran, in run order.                         *)
(***************************************************************************)
MaxEvents == 3
EventTimes == {1, 2, 3}
ActionAdds == {None, Some(1), Some(3)}

EventScheduler == [events |-> <<>>, added |-> 0]

\* list.sort(key=lambda x: x[0]): a stable sort by time
RECURSIVE SortByTime(_)
SortByTime(events) ==
    IF Len(events) <= 1 THEN events
    ELSE LET sorted == SortByTime(SubSeq(events, 1, Len(events) - 1))
             last == events[Len(events)]
             before == SelectSeq(sorted, LAMBDA ev : ev[1] <= last[1])
             after == SelectSeq(sorted, LAMBDA ev : ev[1] > last[1])
         IN before \o <<last>> \o after

\* variant: the event is appended and the list is not sorted
add_event_unsorted(self, time, action) ==
    [events |-> Append(self.events, <<time, action>>), added |-> self.added + 1]

add_event(self, time, action) ==
    [events |-> SortByTime(Append(self.events, <<time, action>>)), added |-> self.added + 1]

\* action(): a plain action does nothing; an adding action calls add_event
RunAction(self, action) ==
    IF action.adds = None THEN self
    ELSE add_event(self, action.adds[1],
                   [id |-> self.added + 1, adds |-> None, origin |-> action.id])

\* the loop of trigger_events; runs collects the events popped so far
RECURSIVE trigger_events_loop(_, _, _)
trigger_events_loop(self, current_time_, runs) ==
    IF Len(self.events) > 0 /\ self.events[1][1] <= current_time_
    THEN LET event == Head(self.events)
             popped == [self EXCEPT !.events = Tail(@)]
         IN trigger_events_loop(RunAction(popped, event[2]), current_time_, Append(runs, event))
    ELSE [self |-> self, runs |-> runs]

trigger_events(self, current_time_) == trigger_events_loop(self, current_time_, <<>>)

SchedulerCall(op, t, before, runs) == [op |-> op, t |-> t, before |-> before, runs |-> runs]

InitScheduler ==
    /\ scheduler = EventScheduler
    /\ triggered = SchedulerCall("none", 0, <<>>, <<>>)
    /\ EngineIdle /\ PureIdle /\ ReceptorIdle /\ BridgeIdle

AddEvent ==
    /\ scheduler.added < MaxEvents
    /\ \E time \in EventTimes, adds \in ActionAdds :
          /\ scheduler' = add_event(scheduler, time,
                                    [id |-> scheduler.added + 1, adds |-> adds, origin |-> 0])
          /\ triggered' = SchedulerCall("add_event", time, scheduler.events, <<>>)

TriggerEvents ==
    \E t \in EventTimes :
        \E r \in {trigger_events(scheduler, t)} :
            /\ scheduler' = r.self
            /\ triggered' = SchedulerCall("trigger_events", t, scheduler.events, r.runs)

NextScheduler ==
    /\ AddEvent \/ TriggerEvents
    /\ UNCHANGED engineVars /\ UNCHANGED pureVars /\ UNCHANGED receptorVars /\ UNCHANGED bridgeVars

SpecScheduler == InitScheduler /\ [][NextScheduler]_vars

\* what the last trigger_events call left, in terms of event ids
Ids(events) == {events[i][2].id : i \in 1..Len(events)}
Pending == scheduler.events
Runs == triggered.runs
AddedDuring == {ev \in Ids(Runs) \cup Ids(Pending) : ev \notin Ids(triggered.before)}
NothingDuePending == \A i \in 1..Len(Pending) : Pending[i][1] > triggered.t
RanOnceIfDue ==
    /\ \A i \in 1..Len(Runs) : Runs[i][1] <= triggered.t
    /\ \A i \in 1..Len(Runs), j \in 1..Len(Runs) : i # j => Runs[i][2].id # Runs[j][2].id
    /\ Ids(Runs) \cap Ids(Pending) = {}
    /\ Ids(triggered.before) \subseteq Ids(Runs) \cup Ids(Pending)
    /\ Cardinality(AddedDuring) = Cardinality({i \in 1..Len(Runs) : Runs[i][2].adds # None})
LaterStillPending ==
    SelectSeq(triggered.before, LAMBDA ev : ev[1] > triggered.t)
        = SelectSeq(Pending, LAMBDA ev : ev[2].id \in Ids(triggered.before))
\* run i is not after run j in time order, insertion order among equal times
InOrder(i, j) == Runs[i][1] < Runs[j][1] \/ (Runs[i][1] = Runs[j][1] /\ Runs[i][2].id < Runs[j][2].id)
\* the event of run j was added by the action of run i or of a later run
AddedSince(i, j) == \E k \in i..(j - 1) : Runs[j][2].origin = Runs[k][2].id

\* C28 as stated: after trigger_events(t) no pending event has time <= t, every
\* due event has had its action run exactly once, the actions ran in
\* non-decreasing order of event time with insertion order among equal times, and
\* the events with time > t are still pending, actions that add events included.
Claim_C28 ==
    triggered.op = "trigger_events" =>
        /\ NothingDuePending
        /\ RanOnceIfDue
        /\ LaterStillPending
        /\ \A i \in 1..Len(Runs), j \in 1..Len(Runs) : i < j => InOrder(i, j)

\* C28, amended: after trigger_events(t) no pending event has time <= t, every
\* due event has had its action run exactly once, and the events with time > t
\* are still pending, actions that add events included; the actions ran in
\* non-decreasing order of event time with insertion order among equal times,
\* except that an event added by an action during the call runs after every
\* action that had run by then, whatever its time.
Thm_C28 ==
    triggered.op = "trigger_events" =>
        /\ NothingDuePending
        /\ RanOnceIfDue
        /\ LaterStillPending
        /\ \A i \in 1..Len(Runs), j \in 1..Len(Runs) :
              i < j => InOrder(i, j) \/ AddedSince(i, j)

\* a call that ran three actions, among them one added during the call, two with
\* equal times, and left a later event pending
Witness_C28 ==
    /\ triggered.op = "trigger_events"
    /\ Len(Runs) = 3
    /\ AddedDuring # {}
    /\ \E i \in 1..2 : Runs[i][1] = Runs[i + 1][1]
    /\ Len(Pending) > 0

(***************************************************************************)
(* SimulationRunner (core/simulation.py) over Dopamine                     *)
(* (neurotransmitters/dopamine.py).  args holds the constructor arguments, *)
(* ret the runner: its time grid, the dopamine object and the history.     *)
(* The normal deviates drawn from the generator are chosen by the run;     *)
(* dopamine.steps counts the step calls.  T and dt are multiples of 1/4,   *)
(* so T / dt is exact.                                                     *)
(***************************************************************************)
MaxRuns == 2
RunnerDtValues == {2500, 5000}
RunnerTValues == {2500, 5000, 7500, 10000}
DeviateValues == {-SCALE, SCALE}
DopamineParams == [R0 |-> 1000, beta_nov |-> 5000, beta_rew |-> 5000, ku0 |-> 3000, gamma |-> 5000, epsilon |-> 1000, kd |-> 500, kl |-> 200, alpha |-> 1000]
novelty_fn(t) == Min(SCALE, t)
rpe_fn(t) == 2000
oscillation_fn(t) == << <<"alpha", 5000>>, <<"gamma", 7000>> >>

\* modulate_parameters: of the keys it scales, the parameter dict holds only R0
modulate_parameters(base_params, oscs) ==
    [base_params EXCEPT !.R0 = Mul(@, SCALE - Mul(2000, DictGetDefault(oscs, "alpha", 0)))]

\* Dopamine(params): C0 and F0 are not among the parameters
Dopamine(params) == [C |-> 5000, F |-> 0, steps |-> 0]

\* Dopamine.step(novelty, rpe, dt, oscillations) with the deviate z drawn in noise()
dopamine_step(self, params, novelty, rpe, dt_, oscs, z) ==
    LET p == modulate_parameters(params, oscs)
        R == p.R0 + Mul(p.beta_nov, novelty) + Mul(p.beta_rew, rpe)
        U == Mul(Mul(p.ku0, SCALE - Mul(p.gamma, self.F)), self.C)
        D == Mul(p.kd, self.C)
        L == Mul(p.kl, self.C)
        noise_term == Mul(Mul(p.alpha, Sqrt(Max(self.C, 0))), z)
        C == Max(self.C + Mul(R - U - D - L, dt_) + Mul(noise_term, Sqrt(dt_)), 0)
        F == self.F + Mul(Mul(params.epsilon, C - self.F), dt_)
    IN [C |-> C, F |-> Max(0, Min(SCALE, F)), steps |-> self.steps + 1]

\* np.linspace(start, stop, num): num points from start to stop, both included
linspace(start, stop, num) ==
    [i \in 1..num |-> IF num = 1 THEN start
                      ELSE start + RDiv((i - 1) * (stop - start), num - 1)]

\* SimulationRunner(dopamine_params, novelty_fn, rpe_fn, oscillation_fn, dt, T)
SimulationRunner(params, dt_, T) ==
    [dt |-> dt_, T |-> T, timesteps |-> T \div dt_, time |-> linspace(0, T, T \div dt_),
     dopamine |-> Dopamine(params), history |-> <<>>, runs |-> 0]

\* SimulationRunner.run from the i-th grid point on
RECURSIVE run_from(_, _, _, _)
run_from(self, params, i, zs) ==
    IF i > Len(self.time) THEN self
    ELSE LET t == self.time[i]
             dopamine == dopamine_step(self.dopamine, params, novelty_fn(t), rpe_fn(t),
                                       self.dt, oscillation_fn(t), zs[i])
         IN run_from([self EXCEPT !.dopamine = dopamine,
                                  !.history = Append(@, [t |-> t, C |-> dopamine.C,
                                                         F |-> dopamine.F])],
                     params, i + 1, zs)

run(self, params, zs) == [run_from(self, params, 1, zs) EXCEPT !.runs = @ + 1]

InitRunner ==
    /\ \E dt_ \in RunnerDtValues, T \in RunnerTValues :
          /\ args = [dopamine_params |-> DopamineParams, dt |-> dt_, T |-> T]
          /\ ret = SimulationRunner(DopamineParams, dt_, T)
    /\ EngineIdle /\ ReceptorIdle /\ BridgeIdle /\ SchedulerIdle

Run ==
    /\ ret.runs < MaxRuns
    /\ \E zs \in SeqsOfLen(DeviateValues, ret.timesteps) :
          ret' = run(ret, args.dopamine_params, zs)
    /\ UNCHANGED args

NextRunner ==
    /\ Run
    /\ UNCHANGED engineVars /\ UNCHANGED receptorVars /\ UNCHANGED bridgeVars /\ UNCHANGED schedulerVars

SpecRunner == InitRunner /\ [][NextRunner]_vars

\* C30: run appends exactly int(T / dt) history entries whose times start at 0
\* and increase by dt from one entry to the next, so that each time stamp equals
\* the simulated time of the dopamine steps of size dt taken before it in the run.
Claim_C30 ==
    [][LET n == args.T \div args.dt
           appended == SubSeq(ret'.history, Len(ret.history) + 1, Len(ret'.history))
       IN /\ Len(appended) = n
          /\ ret'.dopamine.steps = ret.dopamine.steps + n
          /\ \A k \in 1..n : appended[k].t = (k - 1) * args.dt]_vars

====
